---- MODULE Spec2Model ----
(***************************************************************************)
(* A model of the BFT consensus manager of consensus/bft/bft_manager.go:   *)
(* ConsensusManager over HeightManager over RoundManager, the proposal,    *)
(* prevote and precommit rules, and the commit hand-off to the block       *)
(* builder.  A ConsensusManager is a record; every method of the source is *)
(* an operator from the manager's state to its next state, composed in the *)
(* order the source calls them.  The vote and lockset types live in        *)
(* consensus/bft/types, which is not among the source files: they are      *)
(* modelled from the specification's sections 3 and 4.2.                   *)
(***************************************************************************)
EXTENDS Integers, Sequences, FiniteSets, TLC

VARIABLES
    validators,   \* ConsensusContract.validators: the canonical validator list
    arch,         \* the build: decides float64 -> int conversions out of range
    now,          \* the wall clock read by ConsensusManager.Now(), in seconds
    cm,           \* honest node address -> its ConsensusManager
    offered,      \* per node: the proposal AddProposal has just answered, and its answer (history)
    tickLog,      \* per node: what the last driver iteration did (history)
    elected,      \* the last call of cc.proposer: its arguments and its outcome (history)
    pending,      \* per node: the call of verifyVotes under way or answered, if any
    called,       \* the last call of a lockset function under study: its input and its results (history)
    threads,      \* goroutine -> the entry point it runs, as its steps on locks and maps, and its position
    locks         \* mutex -> the goroutine that holds it, if any

vars == <<validators, arch, now, cm, offered, tickLog, elected, pending, called, threads, locks>>

----------------------------------------------------------------------------
(* Bounds of the model. *)

\* Rounds 0..MaxRound of a height are exercised.
MaxRound == 1

\* The clock stops at MaxNow seconds.
MaxNow == 40

\* Rounds 0..MaxLockRound of a height are exercised where a lock is followed
\* over the rounds.
MaxLockRound == 2

\* Precommit votes of rounds 0..MaxCommitRound are delivered where the commit
\* is exercised.
MaxCommitRound == 1

\* The rounds 0..MaxNetRound of height 1 are played in the network
MaxNetRound == 3

\* Validator lists of 1..MaxValidators addresses, heights 0..MaxElectHeight
\* and rounds 0..MaxElectRound are handed to cc.proposer
MaxValidators == 5

MaxElectHeight == 3

MaxElectRound == 4

\* A call of verifyVotes asks the synchronizer at most MaxRequests times
MaxRequests == 2

\* The highest round the drivers of SpecLive run in
MaxLiveRound == 2

\* The single validator of SpecSolo builds the blocks 1..MaxSoloHeight, its
\* driver runs in rounds 0..MaxSoloRound
MaxSoloHeight == 2

MaxSoloRound == 1

\* The highest round of the proposals offered in SpecSingle
MaxSingleRound == 1

\* The highest round of the proposals offered in SpecProposal
MaxProposalRound == 1

----------------------------------------------------------------------------
(* Values. *)

\* A nil pointer / absent value.
Nil == [nil |-> TRUE]

\* VoteType 1: a vote for a block (btypes.NewVote(h, r, hash, 1)).
VoteBlock == 1

\* VoteType 2: a nil vote (btypes.NewVote(h, r, common.StringToHash(""), 2)).
VoteNil == 2

\* common.StringToHash(""): the all-zero hash
NilHash == 0

\* cm.chain.Genesis().Hash()
GenesisHash == 1

\* The genesis block, number 0.
GenesisBlock == [hash |-> GenesisHash, parent |-> NilHash, number |-> 0]

\* A signed vote or precommit vote: (height, round, blockhash, type) and the
\* address its signature recovers to.
MkVote(h, r, hash, t, addr) ==
    [height |-> h, round |-> r, blockhash |-> hash, voteType |-> t, from |-> addr]

----------------------------------------------------------------------------
(* Validator contract. *)

\* containsAddress(cc.validators, v)
isValidators(addr) == \E k \in 1..Len(validators) : validators[k] = addr

\* A contract that counts one eligible vote more than it has validators
numEligibleVotesAndOne(height) == IF height = 0 THEN 0 ELSE Len(validators) + 1

\* numEligibleVotes: 0 at genesis, else the validator count
numEligibleVotes(height) == IF height = 0 THEN 0 ELSE Len(validators)

\* b^e, for the timeout factors
RECURSIVE Pow(_, _)
Pow(b, e) == IF e = 0 THEN 1 ELSE b * Pow(b, e - 1)

\* 2^e modulo m, by repeated doubling (2^63 itself is no TLC integer)
RECURSIVE TwoPowMod(_, _)
TwoPowMod(e, m) == IF e = 0 THEN 1 % m ELSE (2 * TwoPowMod(e - 1, m)) % m

\* chosen(h, r, length): int(math.Abs(float64(h - r))) % length on uint64 h, r.
\* For h >= r (small values) the float conversion is exact.  For h < r the
\* uint64 difference wraps to 2^64 - (r - h), which float64 rounds to 2^64 and
\* whose conversion to int is out of range: the result depends on the build
\* (amd64 yields -2^63, arm64 saturates at 2^63 - 1).  Go's % truncates, so a
\* negative dividend gives a non-positive remainder.
chosen(h, r, length) ==
    IF h >= r THEN (h - r) % length
    ELSE IF arch = "amd64" THEN 0 - TwoPowMod(63, length)
    ELSE (TwoPowMod(63, length) + length - 1) % length

\* Whether cc.validators[chosen(...)] indexes inside the slice (else Go panics).
proposerInRange(height, round) ==
    LET i == chosen(height, round, Len(validators)) IN i >= 0 /\ i < Len(validators)

\* cc.proposer(height, round)
proposer(height, round) == validators[chosen(height, round, Len(validators)) + 1]

\* A contract that takes every signer for the elected proposer
isProposerAnySigner(p) == TRUE

\* cc.isProposer(p): the proposal's signer is the proposer of its height and round
isProposer(p) == p.from = proposer(p.height, p.round)

----------------------------------------------------------------------------
(* Locksets (consensus/bft/types; modelled from the specification). *)

\* btypes.NewLockSet / NewPrecommitLockSet(eligibleVotesNum, votes)
NewLockSet(n) == [eligible |-> n, votes |-> {}]

\* LockSet.Contain(vote)
Contain(ls, v) == v \in ls.votes

\* LockSet.Add(vote, forceReplace): a vote already held is a no-op; a vote of
\* another (height, round) than the votes held is an error; a second vote of a
\* voter is an error unless forceReplace, which replaces the first.
Add(ls, v, forceReplace) ==
    LET same == {w \in ls.votes : w.from = v.from}
    IN IF v \in ls.votes THEN [err |-> FALSE, ls |-> ls]
       ELSE IF \E w \in ls.votes : w.height # v.height \/ w.round # v.round
            THEN [err |-> TRUE, ls |-> ls]
       ELSE IF same # {} /\ ~forceReplace THEN [err |-> TRUE, ls |-> ls]
       ELSE [err |-> FALSE, ls |-> [ls EXCEPT !.votes = (@ \ same) \cup {v}]]

\* LockSet.IsValid(): strictly more than two thirds of the eligible votes
IsValid(ls) == 3 * Cardinality(ls.votes) > 2 * ls.eligible

\* The number of votes of a lockset for a blockhash
CountVotes(ls, hash) == Cardinality({v \in ls.votes : v.blockhash = hash})

\* The non-nil hashes with more than two thirds of the eligible votes
QuorumHashes(ls) ==
    {hash \in {v.blockhash : v \in ls.votes} :
        hash # NilHash /\ 3 * CountVotes(ls, hash) > 2 * ls.eligible}

\* LockSet.HasQuorum(): (true, hash) iff a non-nil hash has more than two
\* thirds of the eligible votes, else (false, nil-hash)
HasQuorum(ls) ==
    IF QuorumHashes(ls) = {} THEN [result |-> FALSE, hash |-> NilHash]
    ELSE [result |-> TRUE, hash |-> CHOOSE hash \in QuorumHashes(ls) : TRUE]

\* LockSet.NoQuorum(): valid, and Nil has more than two thirds of the votes
NoQuorum(ls) == IsValid(ls) /\ 3 * CountVotes(ls, NilHash) > 2 * ls.eligible

\* LockSet.Height() / Round(): those of the votes held (0 when empty)
LsHeight(ls) == IF ls.votes = {} THEN 0 ELSE (CHOOSE v \in ls.votes : TRUE).height

LsRound(ls) == IF ls.votes = {} THEN 0 ELSE (CHOOSE v \in ls.votes : TRUE).round

----------------------------------------------------------------------------
(* Proposals (consensus/bft/types; modelled from the specification). *)

\* btypes.NewBlockProposal(height, round, block, signingLockset, roundLockset),
\* signed by addr.  roundLockset is Nil at round 0.
NewBlockProposal(h, r, block, signingLockset, roundLockset, addr) ==
    [kind |-> "BlockProposal", height |-> h, round |-> r, block |-> block,
     signingLockset |-> signingLockset, roundLockset |-> roundLockset, from |-> addr]

\* btypes.NewVotingInstruction(height, round, roundLockset), signed by addr
NewVotingInstruction(h, r, roundLockset, addr) ==
    [kind |-> "VotingInstruction", height |-> h, round |-> r,
     roundLockset |-> roundLockset, from |-> addr]

\* Proposal.LockSet(): the round lockset; a block proposal without one gives
\* an empty lockset of no eligible votes
ProposalLockSet(p) == IF p.roundLockset = Nil THEN NewLockSet(0) ELSE p.roundLockset

\* Proposal.Blockhash(): the block's hash; for a voting instruction the hash its
\* round lockset has quorum on
Blockhash(p) ==
    IF p.kind = "BlockProposal" THEN p.block.hash ELSE HasQuorum(p.roundLockset).hash

----------------------------------------------------------------------------
(* Round and height managers. *)

\* NewRoundManager(heightmanager, round).  The two deadlines are kept in units
\* of 2^-round seconds, in which 3 * 1.5^round and 2 * 1.5^round are integers;
\* 0 is the source's "not armed".
NewRoundManager(height, round) ==
    [round |-> round, height |-> height,
     lockset |-> NewLockSet(numEligibleVotes(height)),
     precommitLockset |-> NewLockSet(numEligibleVotes(height)),
     timeoutTime |-> 0, timeoutPrecommit |-> 0,
     proposal |-> Nil, voteLock |-> Nil, precommitVoteLock |-> Nil]

\* NewHeightManager(consensusmanager, height)
NewHeightManager(height) ==
    [height |-> height, rounds |-> <<>>, activeRound |-> 0]

\* hm.getRoundManager(r): the height manager with round r created if absent;
\* the round manager is then hm.rounds[r]
getRoundManager(hm, r) ==
    IF r \in DOMAIN hm.rounds THEN hm
    ELSE [hm EXCEPT !.rounds = (r :> NewRoundManager(hm.height, r)) @@ @]

\* The height manager after getRoundManager(i) for every i in lo..hi
RECURSIVE getRoundManagers(_, _, _)
getRoundManagers(hm, lo, hi) ==
    IF lo > hi THEN hm ELSE getRoundManagers(getRoundManager(hm, lo), lo + 1, hi)

\* The loop "for i := len(hm.rounds) - 1; i >= 0; i--" that returns at the
\* first round manager satisfying P: len is read once, every index visited is
\* created on the way, and a round manager just created never satisfies P.
\* Gives the index returned at (-1: the loop ran out) and the height manager
\* with the visited rounds created.
ScanDown(hm, P(_), Get(_)) ==
    LET n == Cardinality(DOMAIN hm.rounds)
        At(i) == [val |-> IF i < 0 THEN Nil ELSE Get(hm.rounds[i]),
                  hm |-> getRoundManagers(hm, IF i < 0 THEN 0 ELSE i, n - 1)]
        Top(hits) ==
            At(IF hits = {} THEN 0 - 1 ELSE CHOOSE i \in hits : \A j \in hits : j <= i)
    IN Top({i \in DOMAIN hm.rounds : i < n /\ P(hm.rounds[i])})

\* The loop "for i := 0; i < len(hm.rounds); i++": len is read at every
\* iteration and grows with each round created, so the loop ends only when
\* the rounds are 0..len-1: every gap below the highest round is filled.
FillRounds(hm) ==
    IF DOMAIN hm.rounds = {} THEN hm
    ELSE getRoundManagers(hm, 0,
            CHOOSE m \in DOMAIN hm.rounds : \A j \in DOMAIN hm.rounds : j <= m)

HasVoteLock(rm) == rm.voteLock # Nil

VoteLockOf(rm) == rm.voteLock

PrecommitVoteLockOf(rm) == rm.precommitVoteLock

LocksetOf(rm) == rm.lockset

PrecommitLocksetOf(rm) == rm.precommitLockset

\* hm.LastVoteLock(): the vote lock of the highest round that has one
LastVoteLock(hm) == ScanDown(hm, HasVoteLock, VoteLockOf)

\* hm.LastPrecommitVoteLock(): the precommit vote lock of the highest round
\* whose voteLock is set (the loop tests voteLock and returns
\* precommitVoteLock)
LastPrecommitVoteLock(hm) == ScanDown(hm, HasVoteLock, PrecommitVoteLockOf)

HasValidLockset(rm) == IsValid(rm.lockset)

\* hm.lastValidLockset()
lastValidLockset(hm) == ScanDown(hm, HasValidLockset, LocksetOf)

HasValidPrecommitLockset(rm) == IsValid(rm.precommitLockset)

\* hm.lastValidPrecommitLockset()
lastValidPrecommitLockset(hm) == ScanDown(hm, HasValidPrecommitLockset, PrecommitLocksetOf)

\* hm.lastQuorumPrecommitLockSet(): the quorum precommit lockset of the highest
\* round that has one; panics when two rounds have quorum on different hashes
lastQuorumPrecommitLockSet(hm) ==
    LET Quorum(rm) == IsValid(rm.precommitLockset) /\ HasQuorum(rm.precommitLockset).result
        Last(f, q) ==
            [val |-> IF q = {} THEN Nil
                     ELSE f.rounds[CHOOSE i \in q : \A j \in q : j <= i].precommitLockset,
             panic |-> \E i, j \in q : HasQuorum(f.rounds[i].precommitLockset).hash
                                       # HasQuorum(f.rounds[j].precommitLockset).hash,
             hm |-> f]
        Filled(f) == Last(f, {i \in DOMAIN f.rounds : Quorum(f.rounds[i])})
    IN Filled(FillRounds(hm))

----------------------------------------------------------------------------
(* Consensus manager: accessors. *)

\* cm.Head(): the chain's current block
HeadBlock(c) == c.head

\* cm.Height()
Height(c) == c.head.number + 1

\* cm.getHeightManager(h): the manager with height h created if absent; the
\* height manager is then c.heights[h]
getHeightManager(c, h) ==
    IF h \in DOMAIN c.heights THEN c
    ELSE [c EXCEPT !.heights = (h :> NewHeightManager(h)) @@ @]

\* The manager with round manager (h, r) replaced
SetRM(c, h, r, rm) == [c EXCEPT !.heights[h].rounds[r] = rm]

\* The manager with height manager h replaced
SetHM(c, h, hm) == [c EXCEPT !.heights[h] = hm]

\* cm.isReady(): more than two thirds of the validators are in the ready set
isReady(c) == 3 * Cardinality(c.readyValidators) > 2 * Len(validators)

\* numInitialBlocks, set by NewConsensusManager
numInitialBlocks == 10

\* cm.isWaitingForProposal(): isAllowEmptyBlocks is false
isWaitingForProposal(c) == c.hasPendingTransactions \/ Height(c) <= numInitialBlocks

\* cm.broadcast(msg): msg goes out with its Go type (Proposal, Vote or
\* PrecommitVote)
broadcast(c, type, msg) == [c EXCEPT !.out = Append(@, [type |-> type, msg |-> msg])]

\* cm.storePrecommitLockset(blockhash, pls)
storePrecommitLockset(c, blockhash, pls) ==
    [c EXCEPT !.db.precommitLockset = (blockhash :> pls) @@ @]

\* cm.loadPrecommitLockset(blockhash): the lockset stored under the hash, or nil
loadPrecommitLockset(c, blockhash) ==
    IF blockhash \in DOMAIN c.db.precommitLockset
    THEN c.db.precommitLockset[blockhash] ELSE Nil

\* A verifier that takes any stored lockset for a proof of the header
verifyVotesAnyLockset(c, header) ==
    LET pls == loadPrecommitLockset(c, header.hash)
    IN IF pls # Nil THEN [returns |-> TRUE, err |-> FALSE, request |-> FALSE]
       ELSE [returns |-> FALSE, err |-> FALSE, request |-> TRUE]

\* A verifier that asks and sleeps without looking into the database again
verifyVotesAsleep(c, header) == [returns |-> FALSE, err |-> FALSE, request |-> TRUE]

\* One pass of cm.verifyVotes(header), up to its return or its sleep: with a
\* lockset stored under the header's hash it returns, nil if the lockset's
\* quorum hash is the header's hash and an error otherwise; with none it asks
\* the synchronizer for the block number, sleeps and starts over.
verifyVotes(c, header) ==
    LET pls == loadPrecommitLockset(c, header.hash)
    IN IF pls # Nil THEN [returns |-> TRUE, err |-> HasQuorum(pls).hash # header.hash,
                          request |-> FALSE]
       ELSE [returns |-> FALSE, err |-> FALSE, request |-> TRUE]

\* cm.storeLastCommittingLockset(ls)
storeLastCommittingLockset(c, pls) == [c EXCEPT !.db.lastCommittingLockset = pls]

\* cm.commitPrecommitLockset without the comparison of the candidate's parent
\* with the head
commitAnyParent(c, hash, pls) ==
    LET Commit(proposal, q) ==
            IF Blockhash(proposal) = q.hash /\ c.found = "receiving"
            THEN [storePrecommitLockset(c, q.hash, pls)
                    EXCEPT !.handed = Append(@, proposal.block),
                           !.found = "taken",
                           !.Enable = FALSE]
            ELSE c
        Store(q) == IF q.result THEN storePrecommitLockset(c, q.hash, pls) ELSE c
    IN IF hash \in DOMAIN c.blockCandidates
       THEN Commit(c.blockCandidates[hash], HasQuorum(pls))
       ELSE Store(HasQuorum(pls))

\* cm.commitPrecommitLockset(hash, pls).  The send on cm.found is a select
\* with a default branch: it succeeds only while the block builder is
\* receiving on the channel, and the builder takes one block per channel.
commitPrecommitLockset(c, hash, pls) ==
    LET Commit(proposal, q) ==
            IF proposal.block.parent # HeadBlock(c).hash THEN c
            ELSE IF Blockhash(proposal) = q.hash /\ c.found = "receiving"
            THEN [storePrecommitLockset(c, q.hash, pls)
                    EXCEPT !.handed = Append(@, proposal.block),
                           !.found = "taken",
                           !.Enable = FALSE]
            ELSE c
        Store(q) == IF q.result THEN storePrecommitLockset(c, q.hash, pls) ELSE c
    IN IF hash \in DOMAIN c.blockCandidates
       THEN Commit(c.blockCandidates[hash], HasQuorum(pls))
       ELSE Store(HasQuorum(pls))

\* rm.addVote that also clears the round's voteLock when it stores a vote of
\* another validator
rmAddVoteUnlock(c, h, r, vote, forceReplace) ==
    LET Added(rm, a) ==
            IF Contain(rm.lockset, vote) \/ a.err THEN [c |-> c, ok |-> FALSE]
            ELSE [c |-> SetRM(c, h, r,
                         [rm EXCEPT !.lockset = a.ls,
                                    !.voteLock = IF vote.from = c.coinbase THEN @ ELSE Nil]),
                  ok |-> TRUE]
    IN Added(c.heights[h].rounds[r], Add(c.heights[h].rounds[r].lockset, vote, forceReplace))

\* rm.addVote(vote, force_replace, process) of round manager (h, r)
rmAddVote(c, h, r, vote, forceReplace) ==
    LET Added(rm, a) ==
            IF Contain(rm.lockset, vote) \/ a.err THEN [c |-> c, ok |-> FALSE]
            ELSE [c |-> SetRM(c, h, r, [rm EXCEPT !.lockset = a.ls]), ok |-> TRUE]
    IN Added(c.heights[h].rounds[r], Add(c.heights[h].rounds[r].lockset, vote, forceReplace))

\* rm.addPrecommitVote(vote, force_replace, process) of round manager (h, r)
rmAddPrecommitVote(c, h, r, vote, forceReplace) ==
    LET Stored(ls) ==
            SetRM(c, h, r, [c.heights[h].rounds[r] EXCEPT !.precommitLockset = ls])
        Added(rm, a, q) ==
            IF Contain(rm.precommitLockset, vote) \/ a.err THEN [c |-> c, ok |-> FALSE]
            ELSE IF q.result
            THEN [c |-> commitPrecommitLockset(Stored(a.ls), q.hash, a.ls), ok |-> TRUE]
            ELSE [c |-> Stored(a.ls), ok |-> TRUE]
        Try(rm, a) == Added(rm, a, HasQuorum(a.ls))
    IN Try(c.heights[h].rounds[r],
           Add(c.heights[h].rounds[r].precommitLockset, vote, forceReplace))

\* A height manager that does not look at the signer
hmAddVoteAnySigner(c, h, v) ==
    rmAddVote(SetHM(c, h, getRoundManager(c.heights[h], v.round)),
              h, v.round, v, v.from = c.coinbase)

\* hm.addVote(v, process) of height manager h
hmAddVote(c, h, v) ==
    IF ~isValidators(v.from) THEN [c |-> c, ok |-> FALSE]
    ELSE rmAddVote(SetHM(c, h, getRoundManager(c.heights[h], v.round)),
                   h, v.round, v, v.from = c.coinbase)

\* hm.addPrecommitVote(v, process) of height manager h
hmAddPrecommitVote(c, h, v) ==
    IF ~isValidators(v.from) THEN [c |-> c, ok |-> FALSE]
    ELSE rmAddPrecommitVote(SetHM(c, h, getRoundManager(c.heights[h], v.round)),
                            h, v.round, v, v.from = c.coinbase)

\* cm.addBlockCandidates(bp)
addBlockCandidates(c, bp) ==
    [c EXCEPT !.blockCandidates = (Blockhash(bp) :> bp) @@ @]

\* cm.lastCommittingLockset(): the quorum precommit lockset of height - 1
lastCommittingLockset(c) ==
    LET Result(c1, q) ==
            [val |-> q.val, panic |-> q.panic, c |-> SetHM(c1, Height(c) - 1, q.hm)]
        On(c1) == Result(c1, lastQuorumPrecommitLockSet(c1.heights[Height(c) - 1]))
    IN On(getHeightManager(c, Height(c) - 1))

\* cm.lastValidLockset()
cmLastValidLockset(c) ==
    LET Result(c1, q) == [val |-> q.val, c |-> SetHM(c1, Height(c), q.hm)]
        On(c1) == Result(c1, lastValidLockset(c1.heights[Height(c)]))
    IN On(getHeightManager(c, Height(c)))

----------------------------------------------------------------------------
(* Timers. *)

\* roundTimeout, set by NewConsensusManager
roundTimeout == 3

\* the local "timeout := 2" of setTimeoutPrecommit
precommitTimeout == 2

\* roundTimeoutFactor and the local timeoutFactor are both 1.5 = 3 / 2
TimeoutFactorNum == 3

TimeoutFactorDen == 2

\* float64(rm.cm.Now()) in the units of round manager rm's deadlines
NowIn(rm) == now * Pow(TimeoutFactorDen, rm.round)

\* rm.getTimeout(): arms timeoutTime = now + roundTimeout * 1.5^round once
getTimeout(rm) ==
    IF rm.timeoutTime # 0 THEN rm
    ELSE [rm EXCEPT !.timeoutTime = NowIn(rm) + roundTimeout * Pow(TimeoutFactorNum, rm.round)]

\* rm.setTimeoutPrecommit(): arms timeoutPrecommit = now + 2 * 1.5^round once
setTimeoutPrecommit(rm) ==
    IF rm.timeoutPrecommit # 0 THEN rm
    ELSE [rm EXCEPT !.timeoutPrecommit =
              NowIn(rm) + precommitTimeout * Pow(TimeoutFactorNum, rm.round)]

\* rm.timeoutTime != 0 && float64(rm.cm.Now()) >= rm.timeoutTime
TimeoutReached(rm) == rm.timeoutTime # 0 /\ NowIn(rm) >= rm.timeoutTime

\* rm.timeoutPrecommit != 0 && float64(rm.cm.Now()) >= rm.timeoutPrecommit
TimeoutPrecommitReached(rm) == rm.timeoutPrecommit # 0 /\ NowIn(rm) >= rm.timeoutPrecommit

\* cm.setupTimeout(h): arms the active round's prevote deadline
setupTimeout(c) ==
    LET h == Height(c)
        Arm(c2, r) ==
            IF isWaitingForProposal(c2)
            THEN SetRM(c2, h, r, getTimeout(c2.heights[h].rounds[r]))
            ELSE c2
        Round(c1, r) == Arm(SetHM(c1, h, getRoundManager(c1.heights[h], r)), r)
        On(c1) == Round(c1, c1.heights[h].activeRound)
    IN On(getHeightManager(c, h))

----------------------------------------------------------------------------
(* The round state machine.  StrategyConfig is the zero value (no Byzantine  *)
(* mode: setByzantineMode is never called), so the DifferentProposal and    *)
(* AlwaysAgree branches are not taken.                                      *)

\* rm.mkProposal() of round manager (h, r)
mkProposal(c, h, r) ==
    LET None(cc, panic) == [c |-> cc, val |-> Nil, panic |-> panic]
        Build(cc, sl, roundLockset) ==
            IF ~HasQuorum(sl.val).result THEN None(cc, FALSE)
            ELSE IF cc.currentBlock = Nil THEN None(cc, FALSE)
            ELSE [c |-> cc, panic |-> FALSE,
                  val |-> NewBlockProposal(h, r, cc.currentBlock, sl.val, roundLockset,
                                           cc.coinbase)]
        OnRound(sl, rl) ==
            IF rl.val = Nil THEN None(rl.c, TRUE) ELSE Build(rl.c, sl, rl.val)
        Unlocked(sl, c1, lp) ==
            IF lp.val # Nil THEN None(c1, FALSE) ELSE OnRound(sl, cmLastValidLockset(c1))
        Locks(sl, lp) == Unlocked(sl, SetHM(sl.c, h, lp.hm), lp)
        Signed(sl) ==
            IF sl.panic THEN None(sl.c, TRUE)
            ELSE IF sl.val = Nil THEN None(sl.c, FALSE)
            ELSE IF r > 0 THEN Locks(sl, LastPrecommitVoteLock(sl.c.heights[h]))
            ELSE Build(sl.c, sl, Nil)
    IN Signed(lastCommittingLockset(c))

\* rm.propose() of round manager (h, r)
propose(c, h, r) ==
    LET rm == c.heights[h].rounds[r]
        None(cc) == [c |-> cc, val |-> Nil, panic |-> FALSE]
        Set(cc, p) ==
            [c |-> SetRM(cc, h, r, [cc.heights[h].rounds[r] EXCEPT !.proposal = p]),
             val |-> p, panic |-> FALSE]
        Made(mk) == IF mk.val = Nil THEN mk ELSE Set(mk.c, mk.val)
        On(rl) ==
            IF rl.val = Nil /\ r # 0 THEN None(rl.c)
            ELSE IF rl.val = Nil THEN Made(mkProposal(rl.c, h, r))
            ELSE IF ~HasQuorum(rl.val).result THEN Made(mkProposal(rl.c, h, r))
            ELSE Set(rl.c, NewVotingInstruction(h, r, rl.val, c.coinbase))
    IN IF ~isWaitingForProposal(c) THEN None(c)
       ELSE IF ~proposerInRange(h, r) THEN [c |-> c, val |-> Nil, panic |-> TRUE]
       ELSE IF proposer(h, r) # c.coinbase THEN None(c)
       ELSE IF rm.proposal # Nil
       THEN IF rm.proposal.from # c.coinbase \/ rm.voteLock = Nil
            THEN None(c)
            ELSE [c |-> c, val |-> rm.proposal, panic |-> FALSE]
       ELSE On(cmLastValidLockset(c))

\* A round manager that prevotes Nil without waiting for the round's deadline
voteImpatient(c, h, r) ==
    LET None(cc, panic) == [c |-> cc, val |-> Nil, panic |-> panic]
        Timed(c3) == SetRM(c3, h, r, setTimeoutPrecommit(c3.heights[h].rounds[r]))
        Cast(c1, rm, v) ==
            [c |-> Timed(rmAddVote(SetRM(c1, h, r, [rm EXCEPT !.voteLock = v]),
                                   h, r, v, FALSE).c),
             val |-> v, panic |-> FALSE]
        New(hash) == MkVote(h, r, hash, IF hash = NilHash THEN VoteNil ELSE VoteBlock,
                            c.coinbase)
        Instructed(c1, rm, lock) ==
            IF HasQuorum(ProposalLockSet(rm.proposal)).result
            THEN IF lock = Nil THEN None(c1, TRUE)
                 ELSE IF LsRound(ProposalLockSet(rm.proposal)) > lock.round
                 THEN Cast(c1, rm, New(Blockhash(rm.proposal)))
                 ELSE None(c1, FALSE)
            ELSE IF lock = Nil THEN Cast(c1, rm, New(NilHash))
            ELSE None(c1, FALSE)
        Choose(c1, rm, lock) ==
            IF lock # Nil /\ lock.voteType = VoteBlock THEN Cast(c1, rm, New(lock.blockhash))
            ELSE IF rm.proposal # Nil
            THEN IF rm.proposal.kind = "VotingInstruction" THEN Instructed(c1, rm, lock)
                 ELSE Cast(c1, rm, New(Blockhash(rm.proposal)))
            ELSE Cast(c1, rm, New(NilHash))
        Scanned(c1, lock) == Choose(c1, c1.heights[h].rounds[r], lock)
        Locks(lp) == Scanned(SetHM(c, h, lp.hm), lp.val)
    IN IF c.heights[h].rounds[r].voteLock # Nil THEN None(c, FALSE)
       ELSE Locks(LastPrecommitVoteLock(c.heights[h]))

\* rm.vote() of round manager (h, r).  In the VotingInstruction branch
\* lastPrecommitVoteLock is dereferenced (lastPrecommitVoteLock.Round) after
\* "quorum &&": a nil lock panics there when the instruction has quorum.
vote(c, h, r) ==
    LET None(cc, panic) == [c |-> cc, val |-> Nil, panic |-> panic]
        Timed(c3) == SetRM(c3, h, r, setTimeoutPrecommit(c3.heights[h].rounds[r]))
        Cast(c1, rm, v) ==
            [c |-> Timed(rmAddVote(SetRM(c1, h, r, [rm EXCEPT !.voteLock = v]),
                                   h, r, v, FALSE).c),
             val |-> v, panic |-> FALSE]
        New(hash) == MkVote(h, r, hash, IF hash = NilHash THEN VoteNil ELSE VoteBlock,
                            c.coinbase)
        Instructed(c1, rm, lock) ==
            IF HasQuorum(ProposalLockSet(rm.proposal)).result
            THEN IF lock = Nil THEN None(c1, TRUE)
                 ELSE IF LsRound(ProposalLockSet(rm.proposal)) > lock.round
                 THEN Cast(c1, rm, New(Blockhash(rm.proposal)))
                 ELSE None(c1, FALSE)
            ELSE IF lock = Nil THEN Cast(c1, rm, New(NilHash))
            ELSE None(c1, FALSE)
        Choose(c1, rm, lock) ==
            IF lock # Nil /\ lock.voteType = VoteBlock THEN Cast(c1, rm, New(lock.blockhash))
            ELSE IF rm.proposal # Nil
            THEN IF rm.proposal.kind = "VotingInstruction" THEN Instructed(c1, rm, lock)
                 ELSE Cast(c1, rm, New(Blockhash(rm.proposal)))
            ELSE IF TimeoutReached(rm) THEN Cast(c1, rm, New(NilHash))
            ELSE None(c1, FALSE)
        Scanned(c1, lock) == Choose(c1, c1.heights[h].rounds[r], lock)
        Locks(lp) == Scanned(SetHM(c, h, lp.hm), lp.val)
    IN IF c.heights[h].rounds[r].voteLock # Nil THEN None(c, FALSE)
       ELSE Locks(LastPrecommitVoteLock(c.heights[h]))

\* A round manager that takes its Nil precommit for a lock as well
votePrecommitLockNil(c, h, r) ==
    LET rm == c.heights[h].rounds[r]
        New(hash) == MkVote(h, r, hash, IF hash = NilHash THEN VoteNil ELSE VoteBlock,
                            c.coinbase)
        Cast(v) ==
            [c |-> rmAddPrecommitVote(SetRM(c, h, r, [rm EXCEPT !.precommitVoteLock = v]),
                                      h, r, v, FALSE).c,
             val |-> v]
        Choose(q) ==
            IF q.result THEN Cast(New(q.hash))
            ELSE IF TimeoutReached(rm) THEN Cast(New(NilHash))
            ELSE [c |-> c, val |-> Nil]
    IN IF rm.precommitVoteLock # Nil \/ ~IsValid(rm.lockset) THEN [c |-> c, val |-> Nil]
       ELSE Choose(HasQuorum(rm.lockset))

\* A round manager that precommits a block as soon as its valid lockset
\* holds one vote for it
votePrecommitAnyHash(c, h, r) ==
    LET rm == c.heights[h].rounds[r]
        hs == {v.blockhash : v \in rm.lockset.votes} \ {NilHash}
        New(hash) == MkVote(h, r, hash, IF hash = NilHash THEN VoteNil ELSE VoteBlock,
                            c.coinbase)
        Cast(v) ==
            [c |-> rmAddPrecommitVote(
                       IF v.voteType = VoteBlock
                       THEN SetRM(c, h, r, [rm EXCEPT !.precommitVoteLock = v])
                       ELSE c,
                       h, r, v, FALSE).c,
             val |-> v]
    IN IF rm.precommitVoteLock # Nil \/ ~IsValid(rm.lockset) THEN [c |-> c, val |-> Nil]
       ELSE IF hs # {} THEN Cast(New(CHOOSE hash \in hs : TRUE))
       ELSE IF TimeoutReached(rm) THEN Cast(New(NilHash))
       ELSE [c |-> c, val |-> Nil]

\* rm.votePrecommit() of round manager (h, r)
votePrecommit(c, h, r) ==
    LET rm == c.heights[h].rounds[r]
        New(hash) == MkVote(h, r, hash, IF hash = NilHash THEN VoteNil ELSE VoteBlock,
                            c.coinbase)
        Cast(v) ==
            [c |-> rmAddPrecommitVote(
                       IF v.voteType = VoteBlock
                       THEN SetRM(c, h, r, [rm EXCEPT !.precommitVoteLock = v])
                       ELSE c,
                       h, r, v, FALSE).c,
             val |-> v]
        Choose(q) ==
            IF q.result THEN Cast(New(q.hash))
            ELSE IF TimeoutReached(rm) THEN Cast(New(NilHash))
            ELSE [c |-> c, val |-> Nil]
    IN IF rm.precommitVoteLock # Nil \/ ~IsValid(rm.lockset) THEN [c |-> c, val |-> Nil]
       ELSE Choose(HasQuorum(rm.lockset))

\* The manager halted by a Go panic
Panicked(c) == [c EXCEPT !.panicked = TRUE]

\* rm.process() of round manager (h, r): propose, prevote, precommit, advance
rmProcess(c, h, r) ==
    LET Proposed(p) ==
            IF p.panic THEN Panicked(p.c)
            ELSE IF p.val = Nil THEN p.c
            ELSE IF p.val.kind = "BlockProposal"
            THEN broadcast(addBlockCandidates(p.c, p.val), "Proposal", p.val)
            ELSE broadcast(p.c, "Proposal", p.val)
        Voted(v) ==
            IF v.panic THEN Panicked(v.c)
            ELSE IF v.val = Nil THEN v.c
            ELSE broadcast(v.c, "Vote", v.val)
        Vote(c1) ==
            IF c1.panicked \/ c1.heights[h].rounds[r].voteLock # Nil THEN c1
            ELSE Voted(vote(c1, h, r))
        Precommitted(pv) ==
            IF pv.val = Nil THEN pv.c ELSE broadcast(pv.c, "PrecommitVote", pv.val)
        Precommit(c2) ==
            IF c2.panicked THEN c2
            ELSE IF IsValid(c2.heights[h].rounds[r].lockset)
                    /\ c2.heights[h].rounds[r].precommitVoteLock = Nil
            THEN Precommitted(votePrecommit(c2, h, r))
            ELSE c2
        Advance(c3) ==
            IF c3.panicked THEN c3
            ELSE IF TimeoutPrecommitReached(c3.heights[h].rounds[r])
                    /\ IsValid(c3.heights[h].rounds[r].precommitLockset)
            THEN [c3 EXCEPT !.heights[h].activeRound = @ + 1]
            ELSE c3
    IN IF c.heights[h].activeRound # r \/ Height(c) # h THEN c
       ELSE Advance(Precommit(Vote(Proposed(propose(c, h, r)))))

\* hm.process() of height manager h
hmProcess(c, h) ==
    rmProcess(SetHM(c, h, getRoundManager(c.heights[h], c.heights[h].activeRound)),
              h, c.heights[h].activeRound)

\* A cleanup that drops the height manager of the head's own number as well
cleanupAtOrBelow(c) ==
    [c EXCEPT
        !.blockCandidates =
            [hash \in {x \in DOMAIN @ : ~(HeadBlock(c).number >= @[x].height)} |-> @[hash]],
        !.heights =
            [i \in {x \in DOMAIN @ : ~(@[x].height <= HeadBlock(c).number)} |-> @[i]]]

\* cm.cleanup(): drops the block candidates of heights at or below the head
\* and the height managers of heights below the head
cleanup(c) ==
    [c EXCEPT
        !.blockCandidates =
            [hash \in {x \in DOMAIN @ : ~(HeadBlock(c).number >= @[x].height)} |-> @[hash]],
        !.heights =
            [i \in {x \in DOMAIN @ : ~(@[x].height < HeadBlock(c).number)} |-> @[i]]]

\* cm.process(): one iteration of the driver
cmProcess(c) ==
    LET Done(c2) == IF c2.panicked THEN c2 ELSE cleanup(c2)
    IN IF ~isReady(c) THEN c
       ELSE Done(hmProcess(getHeightManager(setupTimeout(c), Height(c)), Height(c)))

\* cm.Process(block, abort, found) up to its loop: stores the last committing
\* lockset, takes the builder's block and channel, and starts the driver when
\* the block is of the current height
Process(c, block) ==
    LET Start(c2) ==
            IF Height(c2) # block.number THEN c2 ELSE [c2 EXCEPT !.running = TRUE]
        Take(c1) ==
            Start([c1 EXCEPT !.currentBlock = block, !.found = "receiving", !.Enable = TRUE])
        Stored(pls) ==
            IF pls.panic THEN Panicked(pls.c)
            ELSE IF pls.val # Nil THEN Take(storeLastCommittingLockset(pls.c, pls.val))
            ELSE Take(pls.c)
    IN IF ~isValidators(c.coinbase) THEN c ELSE Stored(lastCommittingLockset(c))

----------------------------------------------------------------------------
(* Ingress. *)

\* The ready set after a message signed by addr: added when absent
MarkReady(c, addr) == [c EXCEPT !.readyValidators = @ \cup {addr}]

\* cm.AddReady(ready)
AddReady(c, addr) == IF ~isValidators(addr) THEN c ELSE MarkReady(c, addr)

\* cm.AddVote(v, peer)
AddVote(c, v) ==
    hmAddVote(getHeightManager(MarkReady(c, v.from), v.height), v.height, v)

\* cm.AddPrecommitVote(v, peer)
AddPrecommitVote(c, v) ==
    hmAddPrecommitVote(getHeightManager(c, v.height), v.height, v)

\* The loop of addBlockProposal: h.addPrecommitVote(v, false) for each vote
RECURSIVE addPrecommitVotes(_, _, _)
addPrecommitVotes(c, h, votes) ==
    LET Rest(v) == addPrecommitVotes(hmAddPrecommitVote(c, h, v).c, h, votes \ {v})
    IN IF votes = {} THEN c ELSE Rest(CHOOSE x \in votes : TRUE)

\* cm.addBlockProposal(bp): feeds the signing lockset's votes to height - 1
\* and stores the block candidate
addBlockProposal(c, bp) ==
    LET slH == LsHeight(bp.signingLockset)
    IN IF ~HasQuorum(bp.signingLockset).result \/ slH # bp.height - 1 THEN c
       ELSE addBlockCandidates(
                addPrecommitVotes(getHeightManager(c, slH), slH, bp.signingLockset.votes),
                bp)

\* A round manager that records every proposal it is handed
rmAddProposalLatest(c, h, r, p) ==
    [c |-> SetRM(c, h, r, [c.heights[h].rounds[r] EXCEPT !.proposal = p]), ok |-> TRUE]

\* rm.addProposal(p) of round manager (h, r)
rmAddProposal(c, h, r, p) ==
    LET rm == c.heights[h].rounds[r]
    IN IF rm.proposal = Nil
       THEN [c |-> SetRM(c, h, r, [rm EXCEPT !.proposal = p]), ok |-> TRUE]
       ELSE [c |-> c, ok |-> Blockhash(rm.proposal) = Blockhash(p)]

\* hm.addProposal(p) of height manager h
hmAddProposal(c, h, p) ==
    rmAddProposal(SetHM(c, h, getRoundManager(c.heights[h], p.round)), h, p.round, p)

\* The checks of cm.AddProposal on the proposal's round lockset (lines 585-600)
LockSetShapeOk(p) ==
    LET ls == ProposalLockSet(p)
    IN /\ ~(~IsValid(ls) /\ ls.eligible # 0)
       /\ p.round # 0 => LsHeight(ls) = p.height /\ p.round - LsRound(ls) = 1

\* The checks on a block proposal without the NoQuorum check of its round
\* lockset
BlockProposalOkAnyLockSet(p) ==
    /\ p.block.number = p.height
    /\ HasQuorum(p.signingLockset).result

\* The checks of cm.AddProposal on a block proposal (lines 613-624)
BlockProposalOk(p) ==
    /\ p.block.number = p.height
    /\ ~(p.round # 0 /\ ~NoQuorum(ProposalLockSet(p)))
    /\ HasQuorum(p.signingLockset).result

\* The checks of cm.AddProposal on a voting instruction (lines 631-640)
VotingInstructionOk(p) ==
    /\ LsRound(p.roundLockset) = p.round - 1 /\ p.height = LsHeight(p.roundLockset)
    /\ p.round # 0
    /\ HasQuorum(p.roundLockset).result

\* cm.AddProposal(p, peer)
AddProposal(c, p) ==
    LET Reject(cc) == [c |-> cc, ok |-> FALSE]
        Checked(c1) ==
            IF ~LockSetShapeOk(p) THEN Reject(c1)
            ELSE IF p.kind = "BlockProposal"
            THEN IF ~BlockProposalOk(p) THEN Reject(c1)
                 ELSE hmAddProposal(getHeightManager(addBlockProposal(c1, p), p.height),
                                    p.height, p)
            ELSE IF ~VotingInstructionOk(p) THEN Reject(c1)
            ELSE hmAddProposal(getHeightManager(c1, p.height), p.height, p)
    IN IF p.height < Height(c) THEN Reject(c)
       ELSE IF ~isValidators(p.from) THEN Reject(c)
       ELSE IF ~proposerInRange(p.height, p.round) THEN Reject(Panicked(c))
       ELSE IF ~isProposer(p) THEN Reject(c)
       ELSE Checked(MarkReady(c, p.from))

----------------------------------------------------------------------------
(* Construction. *)

\* The precommit vote on the genesis block that initializeLocksets signs
GenesisVote(addr) == MkVote(0, 0, GenesisHash, VoteBlock, addr)

\* NewConsensusManager for the node with coinbase addr on a fresh chain and an
\* empty database: initializeLocksets adds the node's own genesis precommit,
\* then the ready set is reset to the coinbase alone
NewConsensusManager(addr) ==
    LET c0 == [coinbase |-> addr, head |-> GenesisBlock, heights |-> <<>>,
               blockCandidates |-> <<>>, readyValidators |-> {},
               db |-> [lastCommittingLockset |-> Nil, precommitLockset |-> <<>>],
               currentBlock |-> Nil, found |-> "nil", handed |-> <<>>,
               Enable |-> TRUE, running |-> FALSE, panicked |-> FALSE,
               hasPendingTransactions |-> FALSE, out |-> <<>>]
    IN [AddPrecommitVote(c0, GenesisVote(addr)).c EXCEPT !.readyValidators = {addr}]

\* The block the block builder of node addr prepares on top of parent: its
\* hash is determined by the builder and the parent
PreparedBlock(addr, parent) ==
    [hash |-> 10 * parent.hash + addr, parent |-> parent.hash, number |-> parent.number + 1]

\* The lockset of a proposer's genesis precommit: the signing lockset of its
\* block proposals of height 1
GenesisLockset(addr) == [eligible |-> 0, votes |-> {GenesisVote(addr)}]

----------------------------------------------------------------------------
(* Nodes, the clock and the transport. *)

\* A node's entry in tickLog: n counts the driver iterations run back to back
\* on round manager (h, r) with nothing in between (2: two or more), sent is
\* what the last one broadcast and changed whether it changed the managers
NoTick == [n |-> 0, h |-> 0, r |-> 0, sent |-> <<>>, changed |-> FALSE]

\* The two conversions of an out-of-range float64 to int that the builds of
\* the program make in chosen()
Archs == {"amd64", "arm64"}

\* The builds that differ over rounds 0..maxr of height 1: chosen() converts
\* out of range only for a round above the height
ArchsFor(maxr) == IF maxr > 1 THEN Archs ELSE {"amd64"}

\* The state after NewConsensusManager on each node of `nodes`, in a network
\* of four validators
InitNodes(nodes, archs) ==
    /\ validators = <<1, 2, 3, 4>>
    /\ arch \in archs
    /\ now = 0
    /\ cm = [i \in nodes |-> NewConsensusManager(i)]
    /\ offered = [i \in nodes |-> Nil]
    /\ tickLog = [i \in nodes |-> NoTick]
    /\ elected = Nil
    /\ called = Nil /\ threads = <<>> /\ locks = <<>>
    /\ pending = [i \in nodes |-> Nil]

\* A handler runs on a node that has not halted; its broadcasts start empty
Ready(i) == i \in DOMAIN cm /\ ~cm[i].panicked

In(c) == [c EXCEPT !.out = <<>>]

\* The block builder calls cm.Process with the block it prepared on the head
StartDriver(i) ==
    /\ Ready(i) /\ ~cm[i].running
    /\ cm' = [cm EXCEPT ![i] = Process(In(@), PreparedBlock(i, @.head))]
    /\ tickLog' = [tickLog EXCEPT ![i] = NoTick]
    /\ UNCHANGED <<called, threads, locks, elected, pending, validators, arch, now, offered>>

\* The active round of node i's current height (0 while it has no manager)
ActiveRound(c) ==
    IF Height(c) \in DOMAIN c.heights THEN c.heights[Height(c)].activeRound ELSE 0

\* What one iteration of the loop of cm.Process leaves in tickLog
TickEntry(i, c) ==
    LET h == Height(cm[i])
        r == ActiveRound(cm[i])
        again == tickLog[i].n >= 1 /\ tickLog[i].h = h /\ tickLog[i].r = r
    IN IF ~isReady(cm[i]) THEN NoTick
       ELSE IF again
       THEN [n |-> 2, h |-> h, r |-> r, sent |-> c.out,
             changed |-> c.heights # cm[i].heights]
       ELSE [n |-> 1, h |-> h, r |-> r, sent |-> <<>>, changed |-> FALSE]

\* One iteration of the loop of cm.Process: cm.process(), while the node's
\* round is at most maxr
Tick(i, maxr) ==
    LET Run(c) ==
            /\ cm' = [cm EXCEPT ![i] = c]
            /\ tickLog' = [tickLog EXCEPT ![i] = TickEntry(i, c)]
    IN /\ Ready(i) /\ cm[i].running /\ cm[i].Enable
       /\ ActiveRound(cm[i]) <= maxr
       /\ Run(cmProcess(In(cm[i])))
       /\ UNCHANGED <<called, threads, locks, elected, pending, validators, arch, now, offered>>

\* What the handler of node c does with a broadcast message m it receives
Handle(c, m) ==
    IF c.panicked THEN c
    ELSE IF m.type = "Vote" THEN AddVote(In(c), m.msg).c
    ELSE IF m.type = "PrecommitVote" THEN AddPrecommitVote(In(c), m.msg).c
    ELSE AddProposal(In(c), m.msg).c

\* Node c after it has received the messages out, in their order
RECURSIVE HandleAll(_, _)
HandleAll(c, out) ==
    IF out = <<>> THEN c ELSE HandleAll(Handle(c, Head(out)), Tail(out))

\* Node i's driver is in the loop of cm.Process, in a round up to maxr
Ticking(i, maxr) ==
    Ready(i) /\ cm[i].running /\ cm[i].Enable /\ ActiveRound(cm[i]) <= maxr

\* The managers after one iteration of node i's driver whose broadcasts
\* reach the nodes of hears at once, in their order
AfterTick(i, hears) ==
    LET Sent(c) ==
            [j \in DOMAIN cm |->
                IF j = i THEN c
                ELSE IF j \in hears THEN HandleAll(cm[j], c.out)
                ELSE cm[j]]
    IN Sent(cmProcess(In(cm[i])))

\* One iteration of the loop of cm.Process on node i in a network
TickAndSend(i, maxr, hears) ==
    /\ Ticking(i, maxr)
    /\ cm' = AfterTick(i, hears)
    /\ UNCHANGED <<called, threads, locks, elected, pending, validators, arch, now, offered, tickLog>>

\* An iteration of node i's driver would change no node's state
Quiet(i, maxr, hears) ==
    Ticking(i, maxr) =>
        [j \in DOMAIN cm |-> In(AfterTick(i, hears)[j])] = [j \in DOMAIN cm |-> In(cm[j])]

\* The loop of cm.Process ends once the manager is disabled
DriverStop(i) ==
    /\ Ready(i) /\ cm[i].running /\ ~cm[i].Enable
    /\ cm' = [cm EXCEPT ![i].running = FALSE]
    /\ tickLog' = [tickLog EXCEPT ![i] = NoTick]
    /\ UNCHANGED <<called, threads, locks, elected, pending, validators, arch, now, offered>>

\* The block builder writes the block it received to the chain
InsertBlock(i) ==
    /\ Ready(i) /\ cm[i].handed # <<>>
    /\ cm[i].handed[Len(cm[i].handed)].parent = cm[i].head.hash
    /\ cm' = [cm EXCEPT ![i].head = cm[i].handed[Len(cm[i].handed)]]
    /\ tickLog' = [tickLog EXCEPT ![i] = NoTick]
    /\ UNCHANGED <<called, threads, locks, elected, pending, validators, arch, now, offered>>

\* The first whole second at which a deadline d of round r is reached
ReachedAt(d, r) ==
    LET u == Pow(TimeoutFactorDen, r) IN (d + u - 1) \div u

\* The seconds at which an armed deadline of node c's active round, not yet
\* reached, will be reached
Deadlines(c) ==
    IF Height(c) \notin DOMAIN c.heights THEN {}
    ELSE IF ActiveRound(c) \notin DOMAIN c.heights[Height(c)].rounds THEN {}
    ELSE LET rm == c.heights[Height(c)].rounds[ActiveRound(c)]
         IN {ReachedAt(d, rm.round) : d \in {rm.timeoutTime, rm.timeoutPrecommit} \ {0}}
            \ 0..now

\* Wall-clock time passes up to the next deadline some node waits for.  The
\* program reads the clock only to compare it with its deadlines.
ClockTick ==
    LET ds == UNION {Deadlines(cm[i]) : i \in DOMAIN cm}
    IN /\ ds # {}
       /\ now' = CHOOSE t \in ds : \A u \in ds : t <= u
       /\ now' <= MaxNow
       /\ tickLog' = [i \in DOMAIN tickLog |-> NoTick]
       /\ UNCHANGED <<called, threads, locks, elected, pending, validators, arch, cm, offered>>

\* The transport hands node i a prevote
RecvVote(i, v) ==
    /\ Ready(i)
    /\ cm' = [cm EXCEPT ![i] = AddVote(In(@), v).c]
    /\ tickLog' = [tickLog EXCEPT ![i] = NoTick]
    /\ UNCHANGED <<called, threads, locks, elected, pending, validators, arch, now, offered>>

\* The transport hands node i a precommit vote
RecvPrecommitVote(i, v) ==
    /\ Ready(i)
    /\ cm' = [cm EXCEPT ![i] = AddPrecommitVote(In(@), v).c]
    /\ tickLog' = [tickLog EXCEPT ![i] = NoTick]
    /\ UNCHANGED <<called, threads, locks, elected, pending, validators, arch, now, offered>>

\* The transport hands node i a proposal
RecvProposal(i, p) ==
    /\ Ready(i)
    /\ cm' = [cm EXCEPT ![i] = AddProposal(In(@), p).c]
    /\ tickLog' = [tickLog EXCEPT ![i] = NoTick]
    /\ UNCHANGED <<called, threads, locks, elected, pending, validators, arch, now, offered>>

\* The transport hands node i a proposal; the history keeps the proposal,
\* what AddProposal returned, whether the proposal was below the node's
\* height and whether the call changed a height or round manager
OfferProposal(i, p) ==
    LET Offered(a) ==
            /\ cm' = [cm EXCEPT ![i] = a.c]
            /\ offered' = [offered EXCEPT ![i] =
                               [msg |-> p, ok |-> a.ok,
                                past |-> p.height < Height(cm[i]),
                                recorded |-> a.c.heights # cm[i].heights]]
    IN /\ Ready(i) /\ offered[i] = Nil
       /\ Offered(AddProposal(In(cm[i]), p))
       /\ tickLog' = [tickLog EXCEPT ![i] = NoTick]
       /\ UNCHANGED <<called, threads, locks, elected, pending, validators, arch, now>>

\* The caller of AddProposal takes its result
\* The transport hands node i a prevote (type "Vote") or a precommit vote
\* (type "PrecommitVote") and takes the answer of AddVote / AddPrecommitVote
OfferVote(i, type, v) ==
    LET Offered(a) ==
            /\ cm' = [cm EXCEPT ![i] = a.c]
            /\ offered' = [offered EXCEPT ![i] =
                               [msg |-> v, ok |-> a.ok,
                                past |-> v.height < Height(cm[i]),
                                recorded |-> a.c.heights # cm[i].heights]]
    IN /\ Ready(i) /\ offered[i] = Nil
       /\ Offered(IF type = "Vote" THEN AddVote(In(cm[i]), v)
                  ELSE AddPrecommitVote(In(cm[i]), v))
       /\ tickLog' = [tickLog EXCEPT ![i] = NoTick]
       /\ UNCHANGED <<called, threads, locks, elected, pending, validators, arch, now>>

TakeResult(i) ==
    /\ i \in DOMAIN offered /\ offered[i] # Nil
    /\ offered' = [offered EXCEPT ![i] = Nil]
    /\ UNCHANGED <<called, threads, locks, elected, pending, validators, arch, now, cm, tickLog>>

\* The transport hands node i a Ready message of validator addr
RecvReady(i, addr) ==
    /\ Ready(i)
    /\ cm' = [cm EXCEPT ![i] = AddReady(In(@), addr)]
    /\ tickLog' = [tickLog EXCEPT ![i] = NoTick]
    /\ UNCHANGED <<called, threads, locks, elected, pending, validators, arch, now, offered>>

\* A message of node i's current height and active round
Current(i, m) ==
    i \in DOMAIN cm /\ m.height = Height(cm[i]) /\ m.round = ActiveRound(cm[i])

\* The transport hands node i a prevote of its active round
RecvCurrentVote(i, v) == Current(i, v) /\ RecvVote(i, v)

\* The transport hands node i a precommit vote of its active round
RecvCurrentPrecommitVote(i, v) == Current(i, v) /\ RecvPrecommitVote(i, v)

\* The transport hands node i a proposal of its active round that another
\* validator signed
RecvCurrentProposal(i, p) == Current(i, p) /\ p.from # i /\ RecvProposal(i, p)

\* A vote of validator a for hash at (h, r)
EnvVote(h, r, hash, a) ==
    MkVote(h, r, hash, IF hash = NilHash THEN VoteNil ELSE VoteBlock, a)

\* A prevote lockset of (1, r) in which the validators of `who` vote hash
EnvLockset(r, who, hash) ==
    [eligible |-> 4, votes |-> {EnvVote(1, r, hash, a) : a \in who}]

\* The block of height 1 that validator a prepares on the genesis block
BlockOf(a) == PreparedBlock(a, GenesisBlock)

\* The block of height 1 that validator 2, the proposer of round 0, proposes
BlockX == BlockOf(2)

\* The proposal of X for round 0
ProposalX == NewBlockProposal(1, 0, BlockX, GenesisLockset(2), Nil, 2)

\* A fresh block proposal of validator a for round r >= 1 of height 1 on a
\* round lockset in which the validators of `who` voted Nil
FreshProposal(r, a, who) ==
    NewBlockProposal(1, r, BlockOf(a), GenesisLockset(a), EnvLockset(r - 1, who, NilHash), a)

----------------------------------------------------------------------------
(* Spec: one node, validator 1 or 2, over rounds 0..MaxRound of height 1.    *)
(* The environment plays the other validators: validators 3 and 4 vote Nil  *)
(* or X, validator 2 proposes X for round 0, and validator 1, the proposer  *)
(* of round 1, proposes a fresh block or instructs to vote X.               *)

\* The nodes under study, one per behaviour
Selves == {1, 2}

\* The validators whose votes the environment delivers
EnvVoters == {3, 4}

\* The votes the environment may deliver
EnvVotes ==
    {EnvVote(1, r, hash, a) : r \in 0..MaxRound, hash \in {NilHash, BlockX.hash}, a \in EnvVoters}

\* The proposals the environment may deliver
EnvProposals ==
    {ProposalX}
    \cup {FreshProposal(r, proposer(1, r), {1, 3, 4}) : r \in 1..MaxRound}
    \cup {NewVotingInstruction(1, r, EnvLockset(r - 1, {1, 3, 4}, BlockX.hash), proposer(1, r)) :
              r \in 1..MaxRound}

Init == \E s \in Selves : InitNodes({s}, ArchsFor(MaxRound))

Next ==
    \/ \E i \in Selves : StartDriver(i)
    \/ \E i \in Selves : Tick(i, MaxRound)
    \/ \E i \in Selves : DriverStop(i)
    \/ ClockTick
    \/ \E i \in Selves, v \in EnvVotes : RecvCurrentVote(i, v)
    \/ \E i \in Selves, v \in EnvVotes : RecvCurrentPrecommitVote(i, v)
    \/ \E i \in Selves, p \in EnvProposals : RecvCurrentProposal(i, p)

Spec == Init /\ [][Next]_vars

----------------------------------------------------------------------------
(* SpecCommit: validator 3 and the hand-off of committed blocks.  Proposer 2 *)
(* proposes X for round 0 and proposer 1 a fresh block Y for round 1 of     *)
(* height 1; validators 1 and 2 prevote X in round 0; validators 1, 2 and 4 *)
(* precommit X in round 0 and Y in the later rounds, delivered at any time. *)
(* The block builder starts the driver, takes the block handed to it and    *)
(* writes it to the chain.                                                  *)

\* The block of height 1 that validator 1 proposes
BlockY == BlockOf(1)

CommitVotes == {EnvVote(1, 0, BlockX.hash, a) : a \in {1, 2}}

CommitPrecommitVotes ==
    {EnvVote(1, r, IF r = 0 THEN BlockX.hash ELSE BlockY.hash, a) :
        r \in 0..MaxCommitRound, a \in {1, 2, 4}}

CommitProposals ==
    {ProposalX} \cup {FreshProposal(r, proposer(1, r), {1, 2, 4}) : r \in 1..MaxCommitRound}

InitCommit == InitNodes({3}, ArchsFor(MaxCommitRound))

NextCommit ==
    \/ StartDriver(3)
    \/ Tick(3, 0)
    \/ DriverStop(3)
    \/ InsertBlock(3)
    \/ \E v \in CommitVotes : RecvCurrentVote(3, v)
    \/ \E v \in CommitPrecommitVotes : RecvPrecommitVote(3, v)
    \/ \E p \in CommitProposals : RecvProposal(3, p)

SpecCommit == InitCommit /\ [][NextCommit]_vars

----------------------------------------------------------------------------
(* SpecHandOff: validator 3 between a quorum of precommits and the hand-off. *)
(* Proposer 2 proposes X for round 0 of height 1, validators 1 and 2        *)
(* prevote X and validators 1, 2 and 4 precommit X in round 0, delivered at *)
(* any time; the clock runs and the node's rounds go on.                    *)

HandOffPrecommitVotes == {EnvVote(1, 0, BlockX.hash, a) : a \in {1, 2, 4}}

InitHandOff == InitNodes({3}, ArchsFor(MaxCommitRound))

NextHandOff ==
    \/ StartDriver(3)
    \/ Tick(3, MaxCommitRound)
    \/ DriverStop(3)
    \/ ClockTick
    \/ \E v \in CommitVotes : RecvVote(3, v)
    \/ \E v \in HandOffPrecommitVotes : RecvPrecommitVote(3, v)
    \/ RecvProposal(3, ProposalX)

SpecHandOff == InitHandOff /\ [][NextHandOff]_vars

----------------------------------------------------------------------------
(* SpecNet: the honest validators 2, 3 and 4 and the Byzantine validator 1  *)
(* over rounds 0..MaxNetRound of height 1, on the amd64 build, after every  *)
(* node has received every validator's Ready message.  A broadcast of node  *)
(* 2 or 3 reaches the other honest nodes at once; the broadcasts of node 4  *)
(* are still under way to nodes 2 and 3 when the run ends.  Validator 1     *)
(* prevotes X and precommits Nil in round 0, votes Nil in the middle rounds *)
(* and proposes and votes its own block Y in the last round, each message   *)
(* to each node at any time; it cannot sign for another validator.          *)

\* The honest validators
Honest == {2, 3, 4}

\* The validator that is not honest
Byzantine == CHOOSE a \in 1..4 : a \notin Honest

\* The honest nodes that receive node i's broadcasts within the run
Hears(i) == IF i = 4 THEN {} ELSE Honest \ {i}

\* The block validator 1 proposes in the last round
ByzBlock == BlockOf(Byzantine)

\* The hash validator 1 prevotes in round r
ByzHash(type, r) ==
    IF r = MaxNetRound THEN ByzBlock.hash
    ELSE IF r = 0 /\ type = "Vote" THEN BlockX.hash
    ELSE NilHash

ByzVotes(type) == {EnvVote(1, r, ByzHash(type, r), Byzantine) : r \in 0..MaxNetRound}

\* The fresh proposal of validator 1 for the last round, on the Nil prevotes
\* of validators 1, 2 and 3 in the round before
ByzProposal == FreshProposal(MaxNetRound, Byzantine, {1, 2, 3})

\* Every honest vote of lockset ls is a prevote its signer cast
SignedBySigners(ls) ==
    \A v \in ls.votes :
        v.from \in Honest =>
            /\ v.height \in DOMAIN cm[v.from].heights
            /\ v.round \in DOMAIN cm[v.from].heights[v.height].rounds
            /\ cm[v.from].heights[v.height].rounds[v.round].voteLock = v

\* Validator 1 sends a message of a round some honest node is in; it reaches
\* every honest node at once
ByzSend(type, m) ==
    /\ \E i \in Honest : Current(i, m)
    /\ cm' = [j \in DOMAIN cm |-> Handle(cm[j], [type |-> type, msg |-> m])]
    /\ UNCHANGED <<called, threads, locks, elected, pending, validators, arch, now, offered, tickLog>>

\* Validator 1 sends its proposal
ByzPropose ==
    /\ SignedBySigners(ByzProposal.roundLockset)
    /\ ByzSend("Proposal", ByzProposal)

\* The drivers start together and iterate every 100 ms, and the deadlines
\* are seconds apart: the clock reaches the next deadline when every driver
\* has started and none has anything left to do
NetClockTick ==
    /\ \A i \in Honest : cm[i].found # "nil"
    /\ \A i \in Honest : Quiet(i, IF i = 4 THEN 0 ELSE MaxNetRound, Hears(i))
    /\ ClockTick

\* Node c after the Ready messages of the first k validators
RECURSIVE Greeted(_, _)
Greeted(c, k) == IF k = 0 THEN c ELSE AddReady(Greeted(c, k - 1), validators[k])

InitNet ==
    /\ validators = <<1, 2, 3, 4>>
    /\ arch = "amd64"
    /\ now = 0
    /\ cm = [i \in Honest |-> Greeted(NewConsensusManager(i), 4)]
    /\ offered = [i \in Honest |-> Nil]
    /\ tickLog = [i \in Honest |-> NoTick]
    /\ elected = Nil
    /\ called = Nil /\ threads = <<>> /\ locks = <<>>
    /\ pending = [i \in Honest |-> Nil]

NextNet ==
    \/ \E i \in Honest : StartDriver(i)
    \/ \E i \in Honest \ {4} : TickAndSend(i, MaxNetRound, Hears(i))
    \/ TickAndSend(4, 0, Hears(4))
    \/ NetClockTick
    \/ \E v \in ByzVotes("Vote") : ByzSend("Vote", v)
    \/ \E v \in ByzVotes("PrecommitVote") : ByzSend("PrecommitVote", v)
    \/ ByzPropose

SpecNet == InitNet /\ [][NextNet]_vars

----------------------------------------------------------------------------
(* SpecProposal: validator 3 at height 1 and the proposals AddProposal may   *)
(* be handed, well-formed or not, for rounds 0..MaxProposalRound: signed by *)
(* a proposer, by another validator or by a stranger, for the node's height *)
(* or a height below it, with round locksets of the right or the wrong      *)
(* height and round that hold a Nil quorum, a block quorum, a mix, too few  *)
(* votes, or name no eligible voters.                                       *)

\* Validators 1, 2 and 4, and address 5, which is no validator
ProposalSigners == {1, 2, 4, 5}

\* The vote patterns of a lockset: its eligible voters, and who votes what
NilQuorum == [eligible |-> 4, nil |-> {1, 2, 4}, block |-> {}]

BlockQuorum == [eligible |-> 4, nil |-> {}, block |-> {1, 2, 4}]

LockSetPatterns ==
    {NilQuorum, BlockQuorum,
     [eligible |-> 4, nil |-> {1, 2}, block |-> {4}],
     [eligible |-> 4, nil |-> {1, 2}, block |-> {}],
     [eligible |-> 4, nil |-> {}, block |-> {1, 2}],
     [eligible |-> 0, nil |-> {1}, block |-> {}],
     [eligible |-> 0, nil |-> {}, block |-> {1}]}

\* The lockset of (h, r) with the votes of pattern pat, block votes on X
PatternLockSet(h, r, pat) ==
    [eligible |-> pat.eligible,
     votes |-> {EnvVote(h, r, NilHash, a) : a \in pat.nil}
               \cup {EnvVote(h, r, BlockX.hash, a) : a \in pat.block}]

\* The quorum locksets of the round before r of height h
QuorumLockSets(h, r) ==
    {PatternLockSet(h, r - 1, pat) : pat \in {q \in {NilQuorum, BlockQuorum} : r > 0}}

\* The round locksets the proposer's proposals of (h, r) carry: every pattern
\* at the round before r, and quorums of round r or of height h + 1
RoundLockSets(h, r) ==
    {PatternLockSet(h, r - 1, pat) : pat \in {q \in LockSetPatterns : r > 0}}
    \cup QuorumLockSets(h, r + 1) \cup QuorumLockSets(h + 1, r)

\* The block of height 2 that validator a prepares on X
BlockOn(a) == PreparedBlock(a, BlockX)

\* A second block of height 1 of validator a: the first with another extra
\* field in its header, and so another hash
SecondBlockOf(a) == [BlockOf(a) EXCEPT !.hash = @ + 5]

\* The proposals of round r of height 1
ProposalsOf(r) ==
    LET Signed(pr) ==
            \* the proposer's: any round lockset or none
            {NewBlockProposal(1, r, BlockOf(pr), GenesisLockset(pr), ls, pr) :
                ls \in RoundLockSets(1, r) \cup {Nil}}
            \cup {NewVotingInstruction(1, r, ls, pr) : ls \in RoundLockSets(1, r)}
            \* the proposer's, with a block of another height or an empty
            \* signing lockset
            \cup {NewBlockProposal(1, r, BlockOn(pr), GenesisLockset(pr), ls, pr) :
                    ls \in QuorumLockSets(1, r) \cup {Nil}}
            \cup {NewBlockProposal(1, r, BlockOf(pr), NewLockSet(0), ls, pr) :
                    ls \in QuorumLockSets(1, r) \cup {Nil}}
            \* another signer's, with a quorum round lockset or none
            \cup {NewBlockProposal(1, r, BlockOf(a), GenesisLockset(a), ls, a) :
                    a \in ProposalSigners \ {pr}, ls \in QuorumLockSets(1, r) \cup {Nil}}
            \cup {NewVotingInstruction(1, r, ls, a) :
                    a \in ProposalSigners \ {pr}, ls \in QuorumLockSets(1, r)}
    IN Signed(proposer(1, r))

\* The proposals of height 0, below the node's height
PastProposals ==
    {NewBlockProposal(0, 0, GenesisBlock, GenesisLockset(a), Nil, a) : a \in ProposalSigners}
    \cup {NewVotingInstruction(0, 1, PatternLockSet(0, 0, BlockQuorum), a) : a \in ProposalSigners}

ProposalPool == PastProposals \cup UNION {ProposalsOf(r) : r \in 0..MaxProposalRound}

InitProposal == InitNodes({3}, ArchsFor(MaxProposalRound))

NextProposal ==
    \/ \E p \in ProposalPool : OfferProposal(3, p)
    \/ TakeResult(3)

SpecProposal == InitProposal /\ [][NextProposal]_vars

----------------------------------------------------------------------------
(* SpecChosen: the proposer election alone.  A contract with 1 to            *)
(* MaxValidators validators, on either build, is asked for the proposer of  *)
(* heights 0..MaxElectHeight and rounds 0..MaxElectRound.                   *)

\* cc.proposer(h, r) is called: the index chosen() returns, and whether
\* indexing cc.validators with it panics
Elect(h, r) ==
    /\ elected' = [height |-> h, round |-> r,
                   index |-> chosen(h, r, Len(validators)),
                   panic |-> ~proposerInRange(h, r)]
    /\ UNCHANGED <<called, threads, locks, validators, arch, now, cm, offered, tickLog, pending>>

InitChosen ==
    /\ validators \in {[k \in 1..n |-> k] : n \in 1..MaxValidators}
    /\ arch \in Archs
    /\ now = 0
    /\ cm = <<>>
    /\ offered = <<>>
    /\ tickLog = <<>>
    /\ elected = Nil
    /\ called = Nil /\ threads = <<>> /\ locks = <<>>
    /\ pending = <<>>

NextChosen == \E h \in 0..MaxElectHeight, r \in 0..MaxElectRound : Elect(h, r)

SpecChosen == InitChosen /\ [][NextChosen]_vars

----------------------------------------------------------------------------
(* SpecResolve: the states of a lockset alone.  A round lockset of 1 to      *)
(* MaxEligible eligible votes, in which every voter votes Nil, for one of   *)
(* two blocks or not at all, is handed to the proposer's branch of          *)
(* rm.propose() and to the receiver's test of cm.AddProposal.               *)

MaxEligible == 4

\* The branch of rm.propose() on a round lockset that is there: a voting
\* instruction on quorum, else mkProposal's block proposal
proposeOn(roundLockset) ==
    IF ~HasQuorum(roundLockset).result THEN "BlockProposal" ELSE "VotingInstruction"

\* cm.AddProposal's test of a block proposal of a round > 0 on its lockset
acceptsBlockOn(ls) == NoQuorum(ls)

\* "No vote" among the choices of a voter
Abstains == 0 - 1

\* The lockset of n eligible votes in which voter a votes cast[a]
CastLockset(n, cast) ==
    [eligible |-> n,
     votes |-> {EnvVote(1, 0, cast[a], a) : a \in {b \in 1..n : cast[b] # Abstains}}]

\* The locksets under study
ResolveLocksets ==
    UNION {{CastLockset(n, cast) :
               cast \in [1..n -> {Abstains, NilHash, BlockX.hash, BlockY.hash}]} :
           n \in 1..MaxEligible}

\* The lockset ls is asked for its state, by the proposer and by the receiver
Resolve(ls) ==
    /\ called' = [ls |-> ls, valid |-> IsValid(ls), quorum |-> HasQuorum(ls),
                  noQuorum |-> NoQuorum(ls), branch |-> proposeOn(ls),
                  accepted |-> acceptsBlockOn(ls)]
    /\ UNCHANGED <<threads, locks, validators, arch, now, cm, offered, tickLog, elected,
                   pending>>

InitResolve ==
    /\ validators = <<1, 2, 3, 4>>
    /\ arch = "amd64"
    /\ now = 0
    /\ cm = <<>>
    /\ offered = <<>>
    /\ tickLog = <<>>
    /\ elected = Nil
    /\ called = Nil /\ threads = <<>> /\ locks = <<>>
    /\ pending = <<>>

NextResolve == \E ls \in ResolveLocksets : Resolve(ls)

SpecResolve == InitResolve /\ [][NextResolve]_vars

----------------------------------------------------------------------------

(* SpecScan: the scans of a height manager for its last valid lockset.       *)
(* Validator 3 receives Nil prevotes and Nil precommit votes of validators  *)
(* 1, 2 and 4 for rounds 0 and MaxScanRound of height 1, in any order, so   *)
(* that the round managers of the height are created as the votes come in; *)
(* between the votes hm.lastValidLockset() and                              *)
(* hm.lastValidPrecommitLockset() are called.                               *)

MaxScanRound == 2

ScanVotes == {EnvVote(1, r, NilHash, a) : r \in {0, MaxScanRound}, a \in {1, 2, 4}}

ScanPrecommitVotes == {EnvVote(1, MaxScanRound, NilHash, a) : a \in {1, 2, 4}}

\* hm.lastValidLockset() is called on node i's manager of height 1
ScanLockset(i) ==
    /\ Ready(i) /\ 1 \in DOMAIN cm[i].heights
    /\ called' = [fn |-> "lastValidLockset", hm |-> cm[i].heights[1],
                  val |-> lastValidLockset(cm[i].heights[1]).val]
    /\ cm' = [cm EXCEPT ![i].heights[1] = lastValidLockset(@).hm]
    /\ UNCHANGED <<threads, locks, elected, pending, validators, arch, now, offered, tickLog>>

\* hm.lastValidPrecommitLockset() is called on node i's manager of height 1
ScanPrecommitLockset(i) ==
    /\ Ready(i) /\ 1 \in DOMAIN cm[i].heights
    /\ called' = [fn |-> "lastValidPrecommitLockset", hm |-> cm[i].heights[1],
                  val |-> lastValidPrecommitLockset(cm[i].heights[1]).val]
    /\ cm' = [cm EXCEPT ![i].heights[1] = lastValidPrecommitLockset(@).hm]
    /\ UNCHANGED <<threads, locks, elected, pending, validators, arch, now, offered, tickLog>>

InitScan == InitNodes({3}, {"amd64"})

NextScan ==
    \/ \E v \in ScanVotes : RecvVote(3, v)
    \/ \E v \in ScanPrecommitVotes : RecvPrecommitVote(3, v)
    \/ ScanLockset(3)
    \/ ScanPrecommitLockset(3)

SpecScan == InitScan /\ [][NextScan]_vars

----------------------------------------------------------------------------

(* SpecLocks: the goroutines of validator 3 on its mutexes and on the map   *)
(* cm.heights.  An entry point is the sequence of its steps that lock or    *)
(* unlock a mutex, read, fill or clear the map, or send on cm.found, in the *)
(* order the source takes them on the path that takes them all: the driver *)
(* proposes a block and precommits on quorum, a precommit vote received     *)
(* completes a quorum.  The driver goroutine runs cm.Process up to its loop *)
(* and the iterations of the loop; the goroutine of a peer runs the         *)
(* handlers of the messages of heights 1..MaxMsgHeight, and a second one    *)
(* the handler of a precommit vote, the ready traffic and the queries of    *)
(* the protocol manager.  Every mutex is taken with Lock(), also the        *)
(* sync.RWMutex ones.                                                       *)

MaxMsgHeight == 1

\* The chain takes at most MaxInserts blocks
MaxInserts == 1

Goroutines == {"driver", "peer", "manager"}

Mutexes == {"getHeightMu", "roundProcessMu", "writeMapMu", "hm.writeMapMu"}

\* No goroutine
Free == ""

\* The steps
Lock(mu) == [op |-> "lock", a |-> mu]

Unlock(mu) == [op |-> "unlock", a |-> mu]

\* cm.heights[h], with h the height given by sel
MapGet(sel) == [op |-> "heights", a |-> sel]

\* "range cm.heights", deleting entries or reading only
MapRange(kind) == [op |-> "range", a |-> kind]

\* "select { case cm.found <- block: ... default: }"
ChanSend == [op |-> "send", a |-> "default"]

\* "cm.found <- block" with no default case
ChanSendWait == [op |-> "send", a |-> "wait"]

\* cm.getHeightManager(h): no mutex of its own
getHeightManagerSteps(sel) == <<MapGet(sel)>>

\* hm.getRoundManager(r)
getRoundManagerSteps == <<Lock("hm.writeMapMu"), Unlock("hm.writeMapMu")>>

\* cm.activeRound()
activeRoundSteps == getHeightManagerSteps("Height") \o getRoundManagerSteps

\* cm.setupTimeout(h)
setupTimeoutSteps == <<Lock("getHeightMu")>> \o activeRoundSteps \o <<Unlock("getHeightMu")>>

\* cm.lastCommittingLockset(): the manager of height - 1 and its scan
lastCommittingLocksetSteps == getHeightManagerSteps("Height-1") \o getRoundManagerSteps

\* cm.lastValidLockset()
cmLastValidLocksetSteps == getHeightManagerSteps("Height") \o getRoundManagerSteps

\* A commit that waits for the block builder to receive
commitPrecommitLocksetWaitSteps == <<Lock("writeMapMu"), ChanSendWait, Unlock("writeMapMu")>>

\* cm.commitPrecommitLockset(hash, pls)
commitPrecommitLocksetSteps == <<Lock("writeMapMu"), ChanSend, Unlock("writeMapMu")>>

\* cm.addBlockCandidates(bp)
addBlockCandidatesSteps == <<Lock("writeMapMu"), Unlock("writeMapMu")>>

\* rm.mkProposal() in a round > 0
mkProposalSteps ==
    lastCommittingLocksetSteps \o getRoundManagerSteps \o cmLastValidLocksetSteps

\* rm.process(): propose and add the candidate, vote (hm.LastPrecommitVoteLock),
\* precommit (rm.addPrecommitVote on quorum commits)
rmProcessSteps ==
    <<Lock("roundProcessMu")>>
        \o cmLastValidLocksetSteps \o mkProposalSteps \o addBlockCandidatesSteps
        \o getRoundManagerSteps
        \o commitPrecommitLocksetSteps
        \o <<Unlock("roundProcessMu")>>

\* cm.cleanup()
cleanupSteps ==
    <<Lock("writeMapMu"), Unlock("writeMapMu"),
      Lock("getHeightMu"), MapRange("delete"), Unlock("getHeightMu")>>

\* cm.process() of a ready node
processSteps ==
    setupTimeoutSteps
        \o <<Lock("getHeightMu")>> \o getHeightManagerSteps("Height")
        \o getRoundManagerSteps \o rmProcessSteps
        \o <<Unlock("getHeightMu")>>
        \o cleanupSteps

\* cm.Process(block, abort, found) up to its loop
ProcessSteps == lastCommittingLocksetSteps

\* "if _, ok := cm.readyValidators[addr]; !ok { ... }" and cm.AddReady(ready)
AddReadySteps == <<Lock("writeMapMu"), Unlock("writeMapMu")>>

\* cm.AddVote(v, peer)
AddVoteSteps ==
    AddReadySteps
        \o <<Lock("getHeightMu")>> \o getHeightManagerSteps("msg")
        \o getRoundManagerSteps
        \o <<Unlock("getHeightMu")>>

\* cm.AddPrecommitVote(v, peer)
AddPrecommitVoteSteps ==
    <<Lock("getHeightMu")>> \o getHeightManagerSteps("msg")
        \o getRoundManagerSteps \o commitPrecommitLocksetSteps
        \o <<Unlock("getHeightMu")>>

\* cm.addBlockProposal(bp)
addBlockProposalSteps ==
    <<Lock("getHeightMu")>> \o getHeightManagerSteps("msg-1")
        \o getRoundManagerSteps \o commitPrecommitLocksetSteps
        \o <<Unlock("getHeightMu")>>
        \o addBlockCandidatesSteps

\* cm.AddProposal(p, peer) of a block proposal
AddProposalSteps ==
    AddReadySteps \o addBlockProposalSteps
        \o <<Lock("getHeightMu")>> \o getHeightManagerSteps("msg")
        \o getRoundManagerSteps
        \o <<Lock("roundProcessMu"), Unlock("roundProcessMu")>>
        \o <<Unlock("getHeightMu")>>

\* cm.SendReady(force)
SendReadySteps == activeRoundSteps

\* cm.Round()
RoundSteps == getHeightManagerSteps("Height")

\* cm.HighestCommittingLockset()
HighestCommittingLocksetSteps == <<MapRange("read")>> \o getRoundManagerSteps

\* The entry points a goroutine runs, with their steps and the heights of
\* the messages they are called with
EntryPoints(t) ==
    IF t = "driver"
    THEN {[entry |-> "Process", prog |-> ProcessSteps, arg |-> 0],
          [entry |-> "process", prog |-> processSteps, arg |-> 0]}
    ELSE IF t = "peer"
    THEN {[entry |-> "AddVote", prog |-> AddVoteSteps, arg |-> h] : h \in 1..MaxMsgHeight}
         \cup {[entry |-> "AddPrecommitVote", prog |-> AddPrecommitVoteSteps, arg |-> h] :
                   h \in 1..MaxMsgHeight}
         \cup {[entry |-> "AddProposal", prog |-> AddProposalSteps, arg |-> h] :
                   h \in 1..MaxMsgHeight}
    ELSE {[entry |-> "AddPrecommitVote", prog |-> AddPrecommitVoteSteps, arg |-> 1],
          [entry |-> "AddReady", prog |-> AddReadySteps, arg |-> 0],
          [entry |-> "SendReady", prog |-> SendReadySteps, arg |-> 0],
          [entry |-> "Round", prog |-> RoundSteps, arg |-> 0],
          [entry |-> "HighestCommittingLockset", prog |-> HighestCommittingLocksetSteps,
           arg |-> 0]}

\* A goroutine that runs no entry point
Idle == [entry |-> "idle", prog |-> <<>>, pc |-> 1, arg |-> 0, access |-> "none"]

\* Goroutine t has steps left, and its next step
Running(t) == threads[t].pc <= Len(threads[t].prog)

Cur(t) == threads[t].prog[threads[t].pc]

\* The height a step on the map names, for goroutine t on node c
HeightOf(sel, t, c) ==
    IF sel = "Height" THEN Height(c)
    ELSE IF sel = "Height-1" THEN Height(c) - 1
    ELSE IF sel = "msg" THEN threads[t].arg
    ELSE threads[t].arg - 1

\* What goroutine t's next step does to the map: reads it, creates an entry
\* or deletes one
AccessKind(t, c) ==
    IF Cur(t).op = "heights"
    THEN IF HeightOf(Cur(t).a, t, c) \in DOMAIN c.heights THEN "read" ELSE "create"
    ELSE IF Cur(t).a = "delete" /\ \E h \in DOMAIN c.heights : h < HeadBlock(c).number
    THEN "delete"
    ELSE "read"

\* The node after goroutine t's step on the map
AfterAccess(t, c) ==
    IF Cur(t).op = "heights" THEN getHeightManager(c, HeightOf(Cur(t).a, t, c))
    ELSE IF Cur(t).a = "delete" THEN cleanup(c)
    ELSE c

Advance(t) == [threads EXCEPT ![t].pc = @ + 1]

\* Goroutine t enters entry point e
Call(t, e) ==
    /\ threads[t] = Idle
    /\ threads' = [threads EXCEPT ![t] =
                       [entry |-> e.entry, prog |-> e.prog, pc |-> 1, arg |-> e.arg,
                        access |-> "none"]]
    /\ UNCHANGED <<called, locks, elected, pending, validators, arch, now, cm, offered,
                   tickLog>>

\* mu.Lock(): waits while the mutex is held, by whomever
Acquire(t) ==
    /\ Running(t) /\ Cur(t).op = "lock" /\ locks[Cur(t).a] = Free
    /\ locks' = [locks EXCEPT ![Cur(t).a] = t]
    /\ threads' = Advance(t)
    /\ UNCHANGED <<called, elected, pending, validators, arch, now, cm, offered, tickLog>>

\* mu.Unlock()
Release(t) ==
    /\ Running(t) /\ Cur(t).op = "unlock"
    /\ locks' = [locks EXCEPT ![Cur(t).a] = Free]
    /\ threads' = Advance(t)
    /\ UNCHANGED <<called, elected, pending, validators, arch, now, cm, offered, tickLog>>

\* Goroutine t starts to read or write cm.heights
MapEnter(t) ==
    /\ Running(t) /\ Cur(t).op \in {"heights", "range"} /\ threads[t].access = "none"
    /\ threads' = [threads EXCEPT ![t].access = AccessKind(t, cm[3])]
    /\ UNCHANGED <<called, locks, elected, pending, validators, arch, now, cm, offered,
                   tickLog>>

\* Goroutine t has read or written cm.heights
MapLeave(t) ==
    /\ Running(t) /\ threads[t].access # "none"
    /\ cm' = [cm EXCEPT ![3] = AfterAccess(t, @)]
    /\ threads' = [threads EXCEPT ![t].pc = @ + 1, ![t].access = "none"]
    /\ UNCHANGED <<called, locks, elected, pending, validators, arch, now, offered, tickLog>>

\* The send on cm.found: the builder takes one block from the channel it
\* gave; after that a send finds no receiver and, in a select, falls to default
Send(t) ==
    /\ Running(t) /\ Cur(t).op = "send"
    /\ Cur(t).a = "default" \/ cm[3].found # "taken"
    /\ cm' = [cm EXCEPT ![3].found = IF @ = "receiving" THEN "taken" ELSE @]
    /\ threads' = Advance(t)
    /\ UNCHANGED <<called, locks, elected, pending, validators, arch, now, offered, tickLog>>

\* The entry point returns; cm.Process has by then taken the builder's channel
Return(t) ==
    /\ threads[t].entry # "idle" /\ ~Running(t)
    /\ threads' = [threads EXCEPT ![t] = Idle]
    /\ cm' = [cm EXCEPT ![3].found = IF threads[t].entry = "Process" THEN "receiving" ELSE @]
    /\ UNCHANGED <<called, locks, elected, pending, validators, arch, now, offered, tickLog>>

\* The chain takes a block: the head moves on
HeadInsert ==
    /\ cm[3].head.number < MaxInserts
    /\ cm' = [cm EXCEPT ![3].head = PreparedBlock(3, @)]
    /\ UNCHANGED <<called, threads, locks, elected, pending, validators, arch, now, offered,
                   tickLog>>

InitLocks ==
    /\ validators = <<1, 2, 3, 4>>
    /\ arch = "amd64"
    /\ now = 0
    /\ cm = [i \in {3} |-> NewConsensusManager(i)]
    /\ offered = [i \in {3} |-> Nil]
    /\ tickLog = [i \in {3} |-> NoTick]
    /\ elected = Nil
    /\ pending = [i \in {3} |-> Nil]
    /\ called = Nil
    /\ threads = [t \in Goroutines |-> Idle]
    /\ locks = [mu \in Mutexes |-> Free]

NextLocks ==
    \/ \E t \in Goroutines : \E e \in EntryPoints(t) : Call(t, e)
    \/ \E t \in Goroutines : Acquire(t)
    \/ \E t \in Goroutines : Release(t)
    \/ \E t \in Goroutines : MapEnter(t)
    \/ \E t \in Goroutines : MapLeave(t)
    \/ \E t \in Goroutines : Send(t)
    \/ \E t \in Goroutines : Return(t)
    \/ HeadInsert

SpecLocks == InitLocks /\ [][NextLocks]_vars

----------------------------------------------------------------------------

(* SpecVerify: validator 3 on a database that may hold precommit locksets    *)
(* of an earlier run, receiving the proposal, votes and precommit votes for *)
(* block X, while the chain asks it to verify the votes behind headers.     *)

\* types.Header of a block: Hash() and Number
HeaderOf(b) == [hash |-> b.hash, number |-> b.number]

VerifyHeaders == {HeaderOf(BlockX), HeaderOf(BlockOf(1))}

\* The precommit locksets the database handed to NewConsensusManager holds:
\* none, or under the hash of validator 1's block a lockset with quorum on
\* block X, or one with quorum on nil
Databases ==
    {<<>>} \cup {BlockOf(1).hash :> PatternLockSet(1, 0, pat) : pat \in {BlockQuorum, NilQuorum}}

\* A caller enters cm.verifyVotes(header)
VerifyCall(i, header) ==
    /\ Ready(i) /\ pending[i] = Nil
    /\ pending' = [pending EXCEPT ![i] =
                      [header |-> header, requests |-> 0, result |-> "running"]]
    /\ UNCHANGED <<called, threads, locks, elected, validators, arch, now, cm, offered, tickLog>>

\* One pass of the call under way: it returns, or requests and sleeps
VerifyStep(i) ==
    LET Pass(v) ==
            /\ v.request => pending[i].requests < MaxRequests
            /\ pending' = [pending EXCEPT ![i] =
                              [@ EXCEPT !.requests = IF v.request THEN @ + 1 ELSE @,
                                        !.result = IF ~v.returns THEN "running"
                                                   ELSE IF v.err THEN "error" ELSE "ok"]]
    IN /\ Ready(i) /\ pending[i] # Nil /\ pending[i].result = "running"
       /\ Pass(verifyVotes(cm[i], pending[i].header))
       /\ UNCHANGED <<called, threads, locks, elected, validators, arch, now, cm, offered, tickLog>>

\* The caller takes the answer
VerifyReturn(i) ==
    /\ pending[i] # Nil /\ pending[i].result # "running"
    /\ pending' = [pending EXCEPT ![i] = Nil]
    /\ UNCHANGED <<called, threads, locks, elected, validators, arch, now, cm, offered, tickLog>>

InitVerify ==
    /\ validators = <<1, 2, 3, 4>>
    /\ arch \in ArchsFor(MaxCommitRound)
    /\ now = 0
    /\ \E d \in Databases :
           cm = [i \in {3} |-> [NewConsensusManager(i) EXCEPT !.db.precommitLockset = d]]
    /\ offered = [i \in {3} |-> Nil]
    /\ tickLog = [i \in {3} |-> NoTick]
    /\ elected = Nil
    /\ called = Nil /\ threads = <<>> /\ locks = <<>>
    /\ pending = [i \in {3} |-> Nil]

NextVerify ==
    \/ StartDriver(3)
    \/ Tick(3, MaxCommitRound)
    \/ \E v \in CommitVotes : RecvVote(3, v)
    \/ \E v \in HandOffPrecommitVotes : RecvPrecommitVote(3, v)
    \/ RecvProposal(3, ProposalX)
    \/ \E header \in VerifyHeaders : VerifyCall(3, header)
    \/ VerifyStep(3)
    \/ VerifyReturn(3)

SpecVerify == InitVerify /\ [][NextVerify]_vars

\* The goroutine inside verifyVotes wakes from every sleep and runs its next pass
FairVerify == SpecVerify /\ WF_vars(VerifyStep(3))

----------------------------------------------------------------------------
(* SpecLive: three of the four validators run, the fourth never sends       *)
(* anything.  The running nodes have received each other's Ready messages;  *)
(* every broadcast reaches the other running nodes at once.  Each node's    *)
(* block builder calls Process at a time of its own.                        *)

\* Node c after the Ready messages of the validators addrs
RECURSIVE GreetedBy(_, _)
GreetedBy(c, addrs) ==
    IF addrs = {} THEN c
    ELSE LET a == CHOOSE x \in addrs : TRUE IN GreetedBy(AddReady(c, a), addrs \ {a})

\* One iteration of node i's driver; its broadcasts reach every other running node
LiveTick(i) == TickAndSend(i, MaxLiveRound, DOMAIN cm \ {i})

\* The clock reaches the next deadline when no driver in its loop has
\* anything left to do
LiveClockTick ==
    /\ \A i \in DOMAIN cm : Quiet(i, MaxLiveRound, DOMAIN cm \ {i})
    /\ ClockTick

InitLive ==
    /\ validators = <<1, 2, 3, 4>>
    /\ arch \in Archs
    /\ now = 0
    /\ \E silent \in 1..4 :
           LET running == (1..4) \ {silent}
           IN /\ cm = [i \in running |-> GreetedBy(NewConsensusManager(i), running)]
              /\ offered = [i \in running |-> Nil]
              /\ tickLog = [i \in running |-> NoTick]
              /\ pending = [i \in running |-> Nil]
    /\ elected = Nil
    /\ called = Nil /\ threads = <<>> /\ locks = <<>>

NextLive ==
    \/ \E i \in 1..4 : StartDriver(i)
    \/ \E i \in 1..4 : LiveTick(i)
    \/ LiveClockTick

SpecLive == InitLive /\ [][NextLive]_vars

----------------------------------------------------------------------------
(* SpecSolo: a contract with the single validator 1.  Its block builder     *)
(* calls Process with a prepared block, takes the block handed over and     *)
(* writes it to the chain; peers that are no validators send votes.         *)

\* Addresses of peers that are no validators
Strangers == {2}

\* The votes and precommit votes the strangers sign
StrangerVotes ==
    {EnvVote(h, r, BlockOf(a).hash, a) :
        h \in 1..MaxSoloHeight, r \in 0..MaxSoloRound, a \in Strangers}

\* The block builder calls Process with the block it prepared on the head,
\* once for each height
SoloStart ==
    /\ \A k \in 1..Len(cm[1].handed) : cm[1].handed[k].number # Height(cm[1])
    /\ StartDriver(1)

\* The block builder writes the block it received to the chain
SoloInsert == cm[1].head.number < MaxSoloHeight /\ InsertBlock(1)

InitSolo ==
    /\ validators = <<1>>
    /\ arch \in Archs
    /\ now = 0
    /\ cm = [i \in {1} |-> NewConsensusManager(i)]
    /\ offered = [i \in {1} |-> Nil]
    /\ tickLog = [i \in {1} |-> NoTick]
    /\ elected = Nil
    /\ called = Nil /\ threads = <<>> /\ locks = <<>>
    /\ pending = [i \in {1} |-> Nil]

NextSolo ==
    \/ SoloStart
    \/ Tick(1, MaxSoloRound)
    \/ DriverStop(1)
    \/ SoloInsert
    \/ ClockTick
    \/ \E v \in StrangerVotes, type \in {"Vote", "PrecommitVote"} : OfferVote(1, type, v)
    \/ TakeResult(1)

SpecSolo == InitSolo /\ [][NextSolo]_vars

----------------------------------------------------------------------------
(* SpecSingle: validator 3 at height 1, its driver in round 0, and proposers *)
(* that sign more than one proposal for a round: proposer 2 two blocks for  *)
(* round 0, proposer 1 two blocks and a voting instruction for each later   *)
(* round up to MaxSingleRound.                                              *)

\* The proposals of round r for the single-proposal rule
SingleProposalsOf(r) ==
    LET Signed(pr) ==
            {NewBlockProposal(1, r, b, GenesisLockset(pr), ls, pr) :
                b \in {BlockOf(pr), SecondBlockOf(pr)},
                ls \in {q \in QuorumLockSets(1, r) : NoQuorum(q)} \cup {q \in {Nil} : r = 0}}
            \cup {NewVotingInstruction(1, r, ls, pr) :
                    ls \in {q \in QuorumLockSets(1, r) : HasQuorum(q).result}}
    IN Signed(proposer(1, r))

SingleProposals == UNION {SingleProposalsOf(r) : r \in 0..MaxSingleRound}

InitSingle == InitNodes({3}, ArchsFor(MaxSingleRound))

NextSingle ==
    \/ \E p \in SingleProposals : OfferProposal(3, p)
    \/ TakeResult(3)
    \/ StartDriver(3)
    \/ Tick(3, 0)

SpecSingle == InitSingle /\ [][NextSingle]_vars

----------------------------------------------------------------------------
(* Properties of the round machine of one node (Spec). *)

\* The round managers (i, h, r) that node i holds
RoundManagers ==
    {x \in (DOMAIN cm) \X (0..2) \X (0..(MaxRound + MaxLockRound + 1)) :
        /\ x[2] \in DOMAIN cm[x[1]].heights
        /\ x[3] \in DOMAIN cm[x[1]].heights[x[2]].rounds}

RM(x) == cm[x[1]].heights[x[2]].rounds[x[3]]

\* A lock of round manager x is a vote that the node signed for x's height
\* and round
OwnVote(x, lock) ==
    lock # Nil => lock.from = x[1] /\ lock.height = x[2] /\ lock.round = x[3]

LocksOwn == \A x \in RoundManagers : OwnVote(x, RM(x).voteLock) /\ OwnVote(x, RM(x).precommitVoteLock)

\* A step leaves every lock that is set as it is
LocksKept ==
    \A x \in RoundManagers :
        LET rm == RM(x)
            rm2 == cm'[x[1]].heights[x[2]].rounds[x[3]]
        IN /\ x[2] \in DOMAIN cm'[x[1]].heights
           /\ rm.voteLock # Nil => rm2.voteLock = rm.voteLock
           /\ rm.precommitVoteLock # Nil => rm2.precommitVoteLock = rm.precommitVoteLock

\* C7: in every round manager voteLock and precommitVoteLock, when set, are
\* votes the node itself signed for that height and round, and no driver
\* iteration, clock step or incoming message changes a lock that is set.
C7_LocksSetOnce == [](LocksOwn) /\ [][LocksKept]_vars

\* C7 witness: a node that set both locks of round 0 has moved on to round 1
\* and voted there, with votes of others stored in the locked round
C7_Witness ==
    \E i \in DOMAIN cm :
        /\ 1 \in DOMAIN cm[i].heights
        /\ 1 \in DOMAIN cm[i].heights[1].rounds
        /\ cm[i].heights[1].rounds[0].voteLock # Nil
        /\ cm[i].heights[1].rounds[0].precommitVoteLock # Nil
        /\ cm[i].heights[1].rounds[1].voteLock # Nil
        /\ Cardinality(cm[i].heights[1].rounds[0].lockset.votes) = 3

\* C8: the second of two driver iterations that run back to back on the same
\* round, with no message, clock step or head change in between, broadcasts
\* nothing and leaves the managers unchanged.
C8_ProcessIdempotent ==
    \A i \in DOMAIN cm :
        tickLog[i].n = 2 => tickLog[i].sent = <<>> /\ ~tickLog[i].changed

----------------------------------------------------------------------------
(* SpecLock: validator 3, which proposes in none of the rounds, over rounds  *)
(* 0..MaxLockRound of height 1.  Validators 1 and 2 prevote Nil or X and    *)
(* precommit Nil in the rounds before the last; the proposers propose X for *)
(* round 0 and fresh blocks for the later rounds.                           *)

LockVoters == {1, 2}

LockVotes ==
    {EnvVote(1, r, hash, a) :
        r \in 0..(MaxLockRound - 1), hash \in {NilHash, BlockX.hash}, a \in LockVoters}

LockPrecommitVotes ==
    {EnvVote(1, r, NilHash, a) : r \in 0..(MaxLockRound - 1), a \in LockVoters}

LockProposals ==
    {ProposalX} \cup {FreshProposal(r, proposer(1, r), {1, 2, 4}) : r \in 1..MaxLockRound}

InitLock == InitNodes({3}, Archs)

NextLock ==
    \/ StartDriver(3)
    \/ Tick(3, MaxLockRound)
    \/ ClockTick
    \/ \E v \in LockVotes : RecvCurrentVote(3, v)
    \/ \E v \in LockPrecommitVotes : RecvCurrentPrecommitVote(3, v)
    \/ \E p \in LockProposals : RecvCurrentProposal(3, p)

SpecLock == InitLock /\ [][NextLock]_vars

----------------------------------------------------------------------------
(* SpecRelock: validator 1 or 4, the proposers of the later rounds, over     *)
(* rounds 0..MaxRelockRound of height 1.  Proposer 2 proposes X for round 0 *)
(* and validators 2 and 3 prevote Nil or X and precommit Nil.               *)

MaxRelockRound == 2

Relockers == {1, 4}

RelockVotes ==
    {EnvVote(1, r, hash, a) :
        r \in 0..(MaxRelockRound - 1), hash \in {NilHash, BlockX.hash}, a \in {2, 3}}

RelockPrecommitVotes ==
    {EnvVote(1, r, NilHash, a) : r \in 0..(MaxRelockRound - 1), a \in {2, 3}}

InitRelock == \E s \in Relockers : InitNodes({s}, Archs)

NextRelock ==
    \/ \E i \in Relockers : StartDriver(i)
    \/ \E i \in Relockers : Tick(i, MaxRelockRound)
    \/ ClockTick
    \/ \E i \in Relockers, v \in RelockVotes : RecvCurrentVote(i, v)
    \/ \E i \in Relockers, v \in RelockPrecommitVotes : RecvCurrentPrecommitVote(i, v)
    \/ \E i \in Relockers : RecvCurrentProposal(i, ProposalX)

SpecRelock == InitRelock /\ [][NextRelock]_vars

----------------------------------------------------------------------------

(* Properties of the lock over the rounds of a height (SpecLock). *)

\* Round manager x holds a voting instruction with quorum
Instructs(x) ==
    /\ RM(x).proposal # Nil
    /\ RM(x).proposal.kind = "VotingInstruction"
    /\ HasQuorum(ProposalLockSet(RM(x).proposal)).result

\* C2: when a node holds a precommit lock on a block X at (h, r), each of its
\* prevotes of a later round of h is a Block vote for X, unless a voting
\* instruction with quorum reached it in a round after r.
C2_LockPreserved ==
    \A x \in RoundManagers, y \in RoundManagers :
        (/\ x[1] = y[1] /\ x[2] = y[2] /\ x[3] < y[3]
         /\ RM(x).precommitVoteLock # Nil
         /\ RM(y).voteLock # Nil
         /\ ~\E z \in RoundManagers :
               z[1] = x[1] /\ z[2] = x[2] /\ x[3] < z[3] /\ z[3] <= y[3] /\ Instructs(z))
        => /\ RM(y).voteLock.voteType = VoteBlock
           /\ RM(y).voteLock.blockhash = RM(x).precommitVoteLock.blockhash

----------------------------------------------------------------------------
(* Properties of the hand-off of committed blocks (SpecCommit). *)

\* The hashes on which the precommit locksets of the rounds of height h of
\* node i have quorum
QuorumHashesAt(i, h) ==
    IF h \notin DOMAIN cm[i].heights THEN {}
    ELSE {HasQuorum(rm.precommitLockset).hash :
            rm \in {cm[i].heights[h].rounds[r] : r \in DOMAIN cm[i].heights[h].rounds}}
         \ {NilHash}

\* The hashes of the blocks of height h that node i handed to the block
\* builder, and those under which it persisted a precommit lockset of h
HandedAt(i, h) ==
    {cm[i].handed[k].hash : k \in {j \in 1..Len(cm[i].handed) : cm[i].handed[j].number = h}}

PersistedAt(i, h) ==
    {hash \in DOMAIN cm[i].db.precommitLockset :
        LsHeight(cm[i].db.precommitLockset[hash]) = h}

\* C3: a node whose precommit locksets of one height hold quorum on two
\* different hashes has halted, and it has handed over or persisted the
\* lockset of at most one hash of that height.
C3_HaltOnSecondQuorum ==
    \A i \in DOMAIN cm : \A h \in 1..2 :
        Cardinality(QuorumHashesAt(i, h)) > 1
            => /\ cm[i].panicked
               /\ Cardinality(HandedAt(i, h) \cup PersistedAt(i, h)) <= 1

\* C4: no block is handed to the block builder twice.
C4_CommitOnce ==
    \A i \in DOMAIN cm : \A a, b \in 1..Len(cm[i].handed) :
        cm[i].handed[a].hash = cm[i].handed[b].hash => a = b

\* A step in which node i hands a block over does so for a block that is a
\* candidate under its hash, whose parent is the head, and persists with it a
\* precommit lockset that has quorum on the block's hash
HandOffGuarded(i) ==
    Len(cm'[i].handed) > Len(cm[i].handed) =>
        LET b == cm'[i].handed[Len(cm'[i].handed)]
        IN /\ Len(cm'[i].handed) = Len(cm[i].handed) + 1
           /\ b.hash \in DOMAIN cm'[i].blockCandidates
           /\ cm'[i].blockCandidates[b.hash].block = b
           /\ b.parent = cm[i].head.hash
           /\ b.hash \in DOMAIN cm'[i].db.precommitLockset
           /\ HasQuorum(cm'[i].db.precommitLockset[b.hash]) = [result |-> TRUE, hash |-> b.hash]

\* C6: a block is handed to the block builder only in a step at which it is
\* in the candidate map under its hash, its parent is the chain head, and
\* the precommit lockset of the commit has quorum on its hash.
C6_HandOffGuarded == [][\A i \in DOMAIN cm : HandOffGuarded(i)]_vars

\* C6 witness: the node handed X over and wrote it to the chain, runs again,
\* and holds a quorum of precommits on the candidate Y whose parent is not
\* the head, which it did not hand over
C6_Witness ==
    \E i \in DOMAIN cm :
        /\ cm[i].head = BlockX
        /\ HandedAt(i, 1) = {BlockX.hash}
        /\ cm[i].found = "receiving"
        /\ BlockY.hash \in DOMAIN cm[i].blockCandidates
        /\ BlockY.hash \in QuorumHashesAt(i, 1)

----------------------------------------------------------------------------
(* Properties of the hand-off after a quorum (SpecHandOff). *)

\* Node i's driver runs with the validators ready, a further iteration of
\* it changes nothing but what it broadcasts, and none of its deadlines is
\* still to come
Settled(i) ==
    /\ cm[i].running /\ cm[i].Enable /\ ~cm[i].panicked /\ isReady(cm[i])
    /\ [cmProcess(In(cm[i])) EXCEPT !.out = <<>>] = In(cm[i])
    /\ Deadlines(cm[i]) = {}

\* Node i holds quorum on hash, and on no other hash, in the precommit
\* locksets of its current height, with the precommit votes of all other
\* validators in the round of the quorum, and holds the block proposal of
\* hash, whose parent is the head
QuorumAndCandidate(i, hash) ==
    /\ QuorumHashesAt(i, Height(cm[i])) = {hash}
    /\ \E r \in DOMAIN cm[i].heights[Height(cm[i])].rounds :
          LET ls == cm[i].heights[Height(cm[i])].rounds[r].precommitLockset
          IN /\ HasQuorum(ls).hash = hash
             /\ {v.from : v \in ls.votes} \cup {i} = {validators[k] : k \in DOMAIN validators}
    /\ hash \in DOMAIN cm[i].blockCandidates
    /\ cm[i].blockCandidates[hash].block.parent = cm[i].head.hash

\* C5: a node that holds a quorum of precommits on a hash at its current
\* height and the block proposal of that hash on the head, whose driver runs
\* with the found channel receiving and has nothing left to do, has handed
\* the block over and persisted the lockset under the hash.
C5_QuorumHandedOver ==
    \A i \in DOMAIN cm : \A hash \in {BlockX.hash} :
        (Settled(i) /\ cm[i].found = "receiving" /\ QuorumAndCandidate(i, hash))
            => hash \in HandedAt(i, Height(cm[i]))

----------------------------------------------------------------------------
(* Properties of AddProposal (SpecProposal). *)

\* The round lockset of proposal p holds votes, all of p's height and of the
\* round before p's
OfRoundBefore(p) ==
    /\ p.roundLockset # Nil
    /\ p.roundLockset.votes # {}
    /\ \A v \in p.roundLockset.votes : v.height = p.height /\ v.round = p.round - 1

\* The shape required of a proposal
ShapeOk(p) ==
    /\ (p.kind = "BlockProposal" /\ p.round > 0) => OfRoundBefore(p) /\ NoQuorum(p.roundLockset)
    /\ p.kind = "VotingInstruction" =>
           p.round > 0 /\ OfRoundBefore(p) /\ HasQuorum(p.roundLockset).result

\* C9: every proposal that AddProposal accepts has the required shape: a
\* block proposal of a round r > 0 carries a round lockset of its height and
\* of round r - 1 for which NoQuorum holds, a voting instruction carries one
\* that has a quorum, and no voting instruction of round 0 is accepted.
C9_AcceptedShape ==
    \A i \in DOMAIN offered :
        (offered[i] # Nil /\ offered[i].ok) => ShapeOk(offered[i].msg)

\* AddProposal has just accepted a voting instruction of a round above 0 on
\* a node that holds an accepted block proposal of round 0
C9_Witness ==
    /\ offered[3] # Nil /\ offered[3].ok
    /\ offered[3].msg.kind = "VotingInstruction" /\ offered[3].msg.round > 0
    /\ 1 \in DOMAIN cm[3].heights /\ 0 \in DOMAIN cm[3].heights[1].rounds
    /\ cm[3].heights[1].rounds[0].proposal # Nil
    /\ cm[3].heights[1].rounds[0].proposal.kind = "BlockProposal"

\* C10: AddProposal returns false and changes no height or round manager
\* for every proposal of a height below the node's, of a signer that is no
\* validator, or of a signer that is not the proposer of the proposal's
\* height and round.
C10_Rejected ==
    \A i \in DOMAIN offered :
        (/\ offered[i] # Nil
         /\ \/ offered[i].past
            \/ ~isValidators(offered[i].msg.from)
            \/ offered[i].msg.from # proposer(offered[i].msg.height, offered[i].msg.round))
            => ~offered[i].ok /\ ~offered[i].recorded

\* AddProposal has just refused a proposal of the node's height whose shape
\* is as required and whose signer is a validator, but not the proposer
C10_Witness ==
    /\ offered[3] # Nil /\ ~offered[3].ok /\ ~offered[3].past
    /\ offered[3].msg.round > 0
    /\ ShapeOk(offered[3].msg)
    /\ isValidators(offered[3].msg.from)
    /\ offered[3].msg.from # proposer(offered[3].msg.height, offered[3].msg.round)

----------------------------------------------------------------------------
(* Safety of the network (SpecNet). *)

\* The blocks node i has handed to the block builder
HandedBlocks(i) == {cm[i].handed[k] : k \in DOMAIN cm[i].handed}

\* C1: any two blocks that honest nodes hand to the block builder at one
\* height have the same hash.
C1_Agreement ==
    \A i \in Honest \cap DOMAIN cm, j \in Honest \cap DOMAIN cm :
        \A b \in HandedBlocks(i), d \in HandedBlocks(j) :
            b.number = d.number => b.hash = d.hash

----------------------------------------------------------------------------
(* The single-proposal rule (SpecSingle). *)

\* The proposal AddProposal has just accepted has the blockhash of the
\* proposal its round manager holds
AcceptedIsRecorded ==
    \A i \in DOMAIN offered :
        (offered[i] # Nil /\ offered[i].ok) =>
            LET p == offered[i].msg
            IN /\ <<i, p.height, p.round>> \in RoundManagers
               /\ RM(<<i, p.height, p.round>>).proposal # Nil
               /\ Blockhash(RM(<<i, p.height, p.round>>).proposal) = Blockhash(p)

\* A node that holds no precommit lock prevotes no block but the one of the
\* proposal its round manager holds
PrevoteIsRecorded ==
    \A x \in RoundManagers :
        (/\ RM(x).voteLock # Nil /\ RM(x).voteLock.voteType = VoteBlock
         /\ \A y \in RoundManagers : y[1] = x[1] => RM(y).precommitVoteLock = Nil)
            => RM(x).proposal # Nil /\ RM(x).voteLock.blockhash = Blockhash(RM(x).proposal)

\* A step leaves every recorded proposal as it is
ProposalKept ==
    \A x \in RoundManagers :
        RM(x).proposal # Nil =>
            /\ x[2] \in DOMAIN cm'[x[1]].heights
            /\ x[3] \in DOMAIN cm'[x[1]].heights[x[2]].rounds
            /\ cm'[x[1]].heights[x[2]].rounds[x[3]].proposal = RM(x).proposal

\* C11: a round manager records at most one proposal: once a proposal is
\* recorded it stays, a later proposal of the same height and round is
\* accepted only with the same blockhash, and the node's prevote of that
\* round is for no other proposal's block.
C11_SingleProposal ==
    [](AcceptedIsRecorded /\ PrevoteIsRecorded) /\ [][ProposalKept]_vars

\* AddProposal has just refused a well-formed second block of the proposer
\* of round 0, after the node prevoted the block of the proposal it holds
C11_Witness ==
    /\ offered[3] # Nil /\ ~offered[3].ok
    /\ offered[3].msg = NewBlockProposal(1, 0, SecondBlockOf(2), GenesisLockset(2), Nil, 2)
    /\ <<3, 1, 0>> \in RoundManagers
    /\ RM(<<3, 1, 0>>).proposal # Nil
    /\ Blockhash(RM(<<3, 1, 0>>).proposal) = BlockX.hash
    /\ RM(<<3, 1, 0>>).voteLock # Nil
    /\ RM(<<3, 1, 0>>).voteLock.blockhash = BlockX.hash

----------------------------------------------------------------------------
(* The proposer election (SpecChosen). *)

\* |x| on the integers
AbsInt(x) == IF x < 0 THEN 0 - x ELSE x

\* C12: for every height h, round r and validator list of length n >= 1 the
\* index that chosen(h, r, n) returns lies in 0..n-1 and is |h - r| mod n,
\* so cc.proposer does not index out of range.
C12_ChosenInRange ==
    elected # Nil =>
        /\ ~elected.panic
        /\ elected.index \in 0..(Len(validators) - 1)
        /\ elected.index = AbsInt(elected.height - elected.round) % Len(validators)

----------------------------------------------------------------------------
(* verifyVotes (SpecVerify). *)

\* The lockset stored under the header of the call under way
StoredFor(i) == loadPrecommitLockset(cm[i], pending[i].header.hash)

\* The stored lockset has quorum on the header's hash
ProvenFor(i) ==
    /\ StoredFor(i) # Nil
    /\ HasQuorum(StoredFor(i)) = [result |-> TRUE, hash |-> pending[i].header.hash]

\* A call that has returned nil has a stored lockset with quorum on its hash
OkIsProven == (pending[3] # Nil /\ pending[3].result = "ok") => ProvenFor(3)

\* A pass that finds no lockset does not return and requests once; a pass
\* that finds a lockset with another quorum hash returns an error and does
\* not request
PassAsStored ==
    (pending[3] # Nil /\ pending'[3] # Nil /\ pending'[3] # pending[3]) =>
        /\ StoredFor(3) = Nil =>
               pending'[3] = [pending[3] EXCEPT !.requests = @ + 1]
        /\ (StoredFor(3) # Nil /\ ~ProvenFor(3)) =>
               pending'[3] = [pending[3] EXCEPT !.result = "error"]
        /\ ProvenFor(3) => pending'[3] = [pending[3] EXCEPT !.result = "ok"]

\* C13: verifyVotes(header) returns nil only if a precommit lockset is stored
\* under the header's hash and has quorum on that hash; while none is stored
\* it does not return and asks the synchronizer once per pass; if the stored
\* lockset's quorum hash differs it returns an error without asking.
C13_VerifyVotes == []OkIsProven /\ [][PassAsStored]_vars

\* A call that asked the synchronizer and then, the lockset with quorum being
\* stored by then, returned nil
C13_Witness ==
    /\ pending[3] # Nil /\ pending[3].result = "ok" /\ pending[3].requests > 0
    /\ ProvenFor(3)

\* C14: a call of verifyVotes(header) under way, once a precommit lockset with
\* quorum on the header's hash is stored, eventually returns nil.
C14_CatchUp ==
    (pending[3] # Nil /\ pending[3].result = "running" /\ ProvenFor(3))
        ~> (pending[3] # Nil /\ pending[3].result = "ok")

\* A call that is still asking while the lockset with quorum is already stored
C14_Witness ==
    /\ pending[3] # Nil /\ pending[3].result = "running" /\ pending[3].requests > 0
    /\ ProvenFor(3)

----------------------------------------------------------------------------
(* Progress with a silent validator (SpecLive). *)

\* Node i has handed over nothing at height 1, holds no precommit lock, and
\* the proposer of its round and of every later round is the validator that
\* does not run: no proposal can reach it any more, and without a proposal
\* or a precommit lock it prevotes Nil
Trapped(i) ==
    /\ HandedAt(i, 1) = {}
    /\ Height(cm[i]) = 1 /\ 1 \in DOMAIN cm[i].heights
    /\ LastPrecommitVoteLock(cm[i].heights[1]).val = Nil
    /\ \A r \in ActiveRound(cm[i])..MaxElectRound :
           proposerInRange(1, r) /\ proposer(1, r) \notin DOMAIN cm

\* C15: with four validators of which one never sends anything, the three
\* others eventually commit a block at the current height (possibly in a
\* round > 0): they never get, all three and with no message under way, into
\* rounds in which none of them can commit.
C15_SilentValidator == ~(\A i \in DOMAIN cm : Trapped(i))

----------------------------------------------------------------------------
(* The single validator (SpecSolo). *)

\* No height of the node has moved beyond round 0
SoloRoundZero == \A h \in DOMAIN cm[1].heights : cm[1].heights[h].activeRound = 0

\* A driver iteration at a height with nothing handed over yet hands over
\* the node's own block of that height
SoloTickCommits ==
    (tickLog'[1].n >= 1 /\ HandedAt(1, Height(cm[1])) = {}) =>
        /\ cm'[1].handed = Append(cm[1].handed, PreparedBlock(1, cm[1].head))
        /\ ~cm'[1].Enable

C17_ReadyAreValidators ==
    \A i \in DOMAIN cm : \A a \in cm[i].readyValidators : isValidators(a)

\* The locksets and precommit locksets of node c, by height and round
Locksets(c) ==
    UNION {{<<h, r, c.heights[h].rounds[r].lockset, c.heights[h].rounds[r].precommitLockset>> :
                r \in DOMAIN c.heights[h].rounds} : h \in DOMAIN c.heights}

\* The answer to a vote of a non-validator is false
StrangerRefused ==
    \A i \in DOMAIN cm :
        (offered[i] # Nil /\ ~isValidators(offered[i].msg.from)) => ~offered[i].ok

\* No lockset and no precommit lockset holds a vote of a non-validator
NoStrangerVote ==
    \A i \in DOMAIN cm : \A e \in Locksets(cm[i]) :
        \A v \in e[3].votes \cup e[4].votes : isValidators(v.from)

\* Handling the vote of a non-validator changes no lockset
StrangerLeavesLocksets ==
    \A i \in DOMAIN cm :
        (offered[i] = Nil /\ offered'[i] # Nil /\ ~isValidators(offered'[i].msg.from)) =>
            Locksets(cm'[i]) = Locksets(cm[i])

\* C18: votes and precommit votes whose signer is not in the validator set
\* are never added to a lockset or precommit lockset, whichever height and
\* round they name; AddVote / AddPrecommitVote answer false and leave the
\* locksets unchanged.
C18_StrangerVotes ==
    [](StrangerRefused /\ NoStrangerVote) /\ [][StrangerLeavesLocksets]_vars

\* A non-validator's vote for the highest height and round has just been
\* answered by a node that holds votes of its own
C18_Witness ==
    /\ offered[1] # Nil /\ ~isValidators(offered[1].msg.from)
    /\ offered[1].msg.height = MaxSoloHeight /\ offered[1].msg.round = MaxSoloRound
    /\ \E e \in Locksets(cm[1]) : e[1] = MaxSoloHeight /\ e[3].votes # {} /\ e[4].votes # {}

----------------------------------------------------------------------------
(* Precommit votes (Spec). *)

\* The precommit votes node i broadcast in its last driver iteration
PrecommitsSent(i) ==
    {cm[i].out[k].msg : k \in {j \in 1..Len(cm[i].out) : cm[i].out[j].type = "PrecommitVote"}}

\* C19: a node emits a precommit vote for a block at (h, r) only if at that
\* moment its own prevote lockset of (h, r) is valid and has quorum on that
\* non-nil hash, and it then holds the vote as the round's precommit lock.
C19_BlockPrecommit ==
    \A i \in DOMAIN cm : \A v \in PrecommitsSent(i) :
        v.voteType = VoteBlock =>
            /\ v.from = i /\ v.blockhash # NilHash
            /\ IsValid(RM(<<i, v.height, v.round>>).lockset)
            /\ HasQuorum(RM(<<i, v.height, v.round>>).lockset) = [result |-> TRUE, hash |-> v.blockhash]
            /\ RM(<<i, v.height, v.round>>).precommitVoteLock = v

\* A node has just broadcast a precommit vote for a block in a round > 0
C19_Witness ==
    \E i \in DOMAIN cm : \E v \in PrecommitsSent(i) :
        v.voteType = VoteBlock /\ v.round > 0

\* The step is an iteration of node i's driver, ready and not panicking, in
\* round r of height h
Iterates(i, h, r) ==
    /\ tickLog'[i].n >= 1 /\ ~cm'[i].panicked
    /\ h = Height(cm[i]) /\ r = ActiveRound(cm[i])
    /\ h \in DOMAIN cm'[i].heights /\ r \in DOMAIN cm'[i].heights[h].rounds

\* An iteration that leaves the round's prevote lockset valid without quorum
\* with the round timeout reached broadcasts the node's Nil precommit and
\* leaves the round's precommit lock unset
NilPrecommitStep ==
    \A i \in DOMAIN cm, h \in 1..2, r \in 0..MaxRound :
        LET rm == cm'[i].heights[h].rounds[r]
        IN (/\ Iterates(i, h, r)
            /\ IsValid(rm.lockset) /\ ~HasQuorum(rm.lockset).result
            /\ TimeoutReached(rm))
           => /\ \E k \in 1..Len(cm'[i].out) :
                     cm'[i].out[k] = [type |-> "PrecommitVote",
                                      msg |-> MkVote(h, r, NilHash, VoteNil, i)]
              /\ rm.precommitVoteLock = Nil

\* Node i precommitted Nil in some round of height h and a block in none
OnlyNilPrecommits(i, h) ==
    /\ \A r \in DOMAIN cm[i].heights[h].rounds :
           cm[i].heights[h].rounds[r].precommitVoteLock = Nil
    /\ \E r \in DOMAIN cm[i].heights[h].rounds :
           MkVote(h, r, NilHash, VoteNil, i) \in cm[i].heights[h].rounds[r].precommitLockset.votes

\* An iteration of a node that only precommitted Nil, in a round in which it
\* has not voted and holds a block proposal, prevotes the proposal's hash
UnboundPrevoteStep ==
    \A i \in DOMAIN cm, h \in 1..2, r \in 1..MaxRound :
        (/\ Iterates(i, h, r)
         /\ h \in DOMAIN cm[i].heights /\ r \in DOMAIN cm[i].heights[h].rounds
         /\ OnlyNilPrecommits(i, h)
         /\ cm[i].heights[h].rounds[r].voteLock = Nil
         /\ cm[i].heights[h].rounds[r].proposal # Nil
         /\ cm[i].heights[h].rounds[r].proposal.kind = "BlockProposal")
        => /\ cm'[i].heights[h].rounds[r].voteLock =
                  MkVote(h, r, Blockhash(cm[i].heights[h].rounds[r].proposal), VoteBlock, i)
           /\ \E k \in 1..Len(cm'[i].out) :
                  cm'[i].out[k] = [type |-> "Vote", msg |-> cm'[i].heights[h].rounds[r].voteLock]

\* C20: when the prevote lockset is valid without quorum and the round
\* timeout has elapsed, the node emits a Nil precommit and leaves its
\* precommit lock unset; a node that only ever precommitted Nil at a height
\* is not bound and, in a later round, prevotes the blockhash of the fresh
\* block proposal recorded in that round.
C20_NilPrecommit == [][NilPrecommitStep /\ UnboundPrevoteStep]_vars

\* A node that precommitted Nil in round 0 has prevoted, in round 1, the
\* block another validator proposed there
C20_Witness ==
    \E i \in DOMAIN cm :
        /\ 1 \in DOMAIN cm[i].heights /\ {0, 1} \subseteq DOMAIN cm[i].heights[1].rounds
        /\ OnlyNilPrecommits(i, 1)
        /\ MkVote(1, 0, NilHash, VoteNil, i) \in cm[i].heights[1].rounds[0].precommitLockset.votes
        /\ cm[i].heights[1].rounds[1].proposal # Nil
        /\ cm[i].heights[1].rounds[1].proposal.kind = "BlockProposal"
        /\ cm[i].heights[1].rounds[1].proposal.from # i
        /\ cm[i].heights[1].rounds[1].voteLock =
               MkVote(1, 1, Blockhash(cm[i].heights[1].rounds[1].proposal), VoteBlock, i)

----------------------------------------------------------------------------
(* The prevote on a voting instruction. *)

\* The step is an iteration of node i's driver in round r of height h, which
\* the node entered ready, without a prevote of its own, holding a voting
\* instruction as the round's proposal
InstructedTick(i, h, r) ==
    /\ tickLog'[i].n >= 1 /\ ~cm[i].panicked
    /\ h = Height(cm[i]) /\ r = ActiveRound(cm[i])
    /\ h \in DOMAIN cm[i].heights /\ r \in DOMAIN cm[i].heights[h].rounds
    /\ cm[i].heights[h].rounds[r].voteLock = Nil
    /\ cm[i].heights[h].rounds[r].proposal # Nil
    /\ cm[i].heights[h].rounds[r].proposal.kind = "VotingInstruction"

\* After the step node i holds, and has broadcast, its prevote v of (h, r)
Prevoted(i, h, r, v) ==
    /\ ~cm'[i].panicked
    /\ cm'[i].heights[h].rounds[r].voteLock = v
    /\ \E k \in 1..Len(cm'[i].out) : cm'[i].out[k] = [type |-> "Vote", msg |-> v]

\* C21: a node that has not prevoted in round r and holds a voting instruction
\* there prevotes the instruction's block when the instruction's lockset has
\* quorum and is of a later round than the node's last precommit lock; a node
\* without a precommit lock at the height completes the vote without
\* crashing and emits a prevote.
C21_InstructedVote ==
    [][\A i \in DOMAIN cm, h \in 1..2, r \in 0..MaxRound :
          InstructedTick(i, h, r) =>
              LET ls == ProposalLockSet(cm[i].heights[h].rounds[r].proposal)
                  lock == LastPrecommitVoteLock(cm[i].heights[h]).val
              IN /\ (lock # Nil /\ HasQuorum(ls).result /\ LsRound(ls) > lock.round)
                        => Prevoted(i, h, r, MkVote(h, r, HasQuorum(ls).hash, VoteBlock, i))
                 /\ lock = Nil
                        => \E hash \in {NilHash, HasQuorum(ls).hash} :
                               Prevoted(i, h, r,
                                        MkVote(h, r, hash,
                                               IF hash = NilHash THEN VoteNil ELSE VoteBlock, i))]_vars

----------------------------------------------------------------------------
(* The Nil prevote of a round without a proposal. *)

\* Node i holds no precommit lock for a block at height h
NoBlockLock(i, h) ==
    h \in DOMAIN cm[i].heights =>
        \A r \in DOMAIN cm[i].heights[h].rounds :
            \/ cm[i].heights[h].rounds[r].precommitVoteLock = Nil
            \/ cm[i].heights[h].rounds[r].precommitVoteLock.voteType # VoteBlock

\* Node i has not prevoted in round r of height h
NotPrevoted(i, h, r) ==
    (h \in DOMAIN cm[i].heights /\ r \in DOMAIN cm[i].heights[h].rounds)
        => cm[i].heights[h].rounds[r].voteLock = Nil

\* The step is an iteration of node i's driver in round r of height h, which
\* the node entered ready, without a prevote of the round and without a
\* precommit lock for a block, and which leaves the round without a proposal
UnproposedTick(i, h, r) ==
    /\ tickLog'[i].n >= 1 /\ ~cm[i].panicked /\ ~cm'[i].panicked
    /\ h = Height(cm[i]) /\ r = ActiveRound(cm[i])
    /\ h \in DOMAIN cm'[i].heights /\ r \in DOMAIN cm'[i].heights[h].rounds
    /\ NotPrevoted(i, h, r) /\ NoBlockLock(i, h)
    /\ cm'[i].heights[h].rounds[r].proposal = Nil

\* The votes node i broadcast in the step
VotesSent(i) ==
    {k \in 1..Len(cm'[i].out) : cm'[i].out[k].type = "Vote"}

\* C22: in a round without a recorded proposal a node without a precommit
\* lock for a block prevotes only once the round's prevote deadline is armed
\* and has passed, and the iteration that finds it passed broadcasts exactly
\* the node's Nil prevote and sets the round's vote lock to it.
C22_NilPrevote ==
    [][\A i \in DOMAIN cm, h \in 1..2, r \in 0..MaxRound :
          UnproposedTick(i, h, r) =>
              LET rm == cm'[i].heights[h].rounds[r]
                  elapsed == rm.timeoutTime # 0 /\ now * Pow(TimeoutFactorDen, r) >= rm.timeoutTime
              IN /\ ~elapsed => (rm.voteLock = Nil /\ VotesSent(i) = {})
                 /\ elapsed =>
                        /\ rm.voteLock = MkVote(h, r, NilHash, VoteNil, i)
                        /\ Cardinality(VotesSent(i)) = 1
                        /\ \A k \in VotesSent(i) : cm'[i].out[k].msg = rm.voteLock]_vars

\* A node in round 1, which it entered without a proposal, has just broadcast
\* its Nil prevote there after the deadline
C22_Witness ==
    \E i \in DOMAIN cm :
        /\ tickLog[i].n >= 1 /\ tickLog[i].h = 1 /\ tickLog[i].r = 1
        /\ 1 \in DOMAIN cm[i].heights /\ 1 \in DOMAIN cm[i].heights[1].rounds
        /\ cm[i].heights[1].rounds[1].proposal = Nil
        /\ cm[i].heights[1].rounds[1].voteLock = MkVote(1, 1, NilHash, VoteNil, i)
        /\ \E k \in 1..Len(cm[i].out) :
               cm[i].out[k] = [type |-> "Vote", msg |-> MkVote(1, 1, NilHash, VoteNil, i)]

----------------------------------------------------------------------------
(* The advance of the active round. *)

\* The step changes the active round of node i's height manager h
RoundMoves(i, h) ==
    /\ h \in DOMAIN cm[i].heights /\ h \in DOMAIN cm'[i].heights
    /\ cm'[i].heights[h].activeRound # cm[i].heights[h].activeRound

\* The step is an iteration of node i's driver that leaves round manager
\* (h, r) with its precommit deadline reached and its precommit lockset
\* valid and without quorum
AdvanceDue(i, h, r) ==
    /\ tickLog'[i].n >= 1 /\ h = Height(cm[i])
    /\ r \in DOMAIN cm'[i].heights[h].rounds
    /\ TimeoutPrecommitReached(cm'[i].heights[h].rounds[r])
    /\ IsValid(cm'[i].heights[h].rounds[r].precommitLockset)
    /\ ~HasQuorum(cm'[i].heights[h].rounds[r].precommitLockset).result

\* C23: the active round of a height changes only by one, in a driver
\* iteration that finds the active round's precommit deadline passed and its
\* precommit lockset valid and without quorum; it never moves past a round
\* whose precommit lockset has quorum.
C23_RoundAdvance ==
    [][\A i \in DOMAIN cm, h \in 1..2 :
          RoundMoves(i, h) =>
              /\ cm'[i].heights[h].activeRound = cm[i].heights[h].activeRound + 1
              /\ AdvanceDue(i, h, cm[i].heights[h].activeRound)]_vars

----------------------------------------------------------------------------
(* The proposals a node makes in the rounds after the first. *)

\* The proposals node i broadcast in its last step
ProposalsSent(i) ==
    {cm[i].out[k].msg : k \in {j \in 1..Len(cm[i].out) : cm[i].out[j].type = "Proposal"}}

\* Proposal p of a round > 0 is what a receiver accepts: its round lockset is
\* the prevote lockset of the round before, without quorum and with Nil in
\* the majority for a block proposal, with quorum for a voting instruction
ReceiverRules(p) ==
    /\ p.roundLockset # Nil
    /\ p.roundLockset.votes # {}
    /\ LsHeight(p.roundLockset) = p.height
    /\ LsRound(p.roundLockset) = p.round - 1
    /\ p.kind = "BlockProposal" => NoQuorum(p.roundLockset)
    /\ p.kind = "VotingInstruction" => HasQuorum(p.roundLockset).result

\* C25: every proposal a node itself emits for a round r > 0 carries the
\* prevote lockset of round r - 1, without quorum (Nil in the majority) under a
\* block proposal and with quorum under a voting instruction.
C25_OwnProposals ==
    \A i \in DOMAIN cm : \A p \in ProposalsSent(i) :
        (p.from = i /\ p.round > 0) => ReceiverRules(p)

\* Node i holds a precommit lock for a block in a round of height h before r
LockedBefore(i, h, r) ==
    /\ h \in DOMAIN cm[i].heights
    /\ \E q \in DOMAIN cm[i].heights[h].rounds :
           /\ q < r
           /\ cm[i].heights[h].rounds[q].precommitVoteLock # Nil
           /\ cm[i].heights[h].rounds[q].precommitVoteLock.voteType = VoteBlock

\* C24: a proposer of a round r > 0 that holds a precommit lock for a block
\* from an earlier round of the height emits no block proposal in round r,
\* whatever the rounds in between hold.
C24_LockedProposer ==
    \A i \in DOMAIN cm : \A p \in ProposalsSent(i) :
        (p.from = i /\ p.round > 0 /\ LockedBefore(i, p.height, p.round))
            => p.kind # "BlockProposal"

----------------------------------------------------------------------------
(* What cleanup leaves of the candidates and the height managers. *)

\* Node i has just run a driver iteration to its end, cleanup included
Cleaned(i) == tickLog'[i].n >= 1 /\ ~cm'[i].panicked

\* After the step node i holds no block candidate of a height at or below the
\* head's number, and every candidate above it that it held before
CandidatesCleaned(i) ==
    /\ \A x \in DOMAIN cm'[i].blockCandidates :
           cm'[i].blockCandidates[x].height > cm'[i].head.number
    /\ \A x \in DOMAIN cm[i].blockCandidates :
           cm[i].blockCandidates[x].height > cm'[i].head.number
               => x \in DOMAIN cm'[i].blockCandidates

\* After the step node i holds no height manager of a height below `least`,
\* and every height manager of a height from `least` on that it held before
HeightsCleaned(i, least) ==
    /\ \A h \in DOMAIN cm'[i].heights : cm'[i].heights[h].height >= least
    /\ \A h \in DOMAIN cm[i].heights :
           cm[i].heights[h].height >= least => h \in DOMAIN cm'[i].heights

\* C27 as stated: after cleanup no candidate and no height manager of a height
\* at or below the head's number is left, and those above the head are kept.
C27_CleanupAtOrBelow ==
    [][\A i \in DOMAIN cm :
          Cleaned(i) => (CandidatesCleaned(i) /\ HeightsCleaned(i, cm'[i].head.number + 1))]_vars

\* C27 amended: after cleanup no candidate of a height at or below the head's
\* number and no height manager of a height below the head's number is left;
\* the height manager of the head's own number, which lastCommittingLockset
\* reads, and every candidate and height manager above the head are kept.
C27_CleanupBelow ==
    [][\A i \in DOMAIN cm :
          Cleaned(i) => (CandidatesCleaned(i) /\ HeightsCleaned(i, cm'[i].head.number))]_vars

\* The node, with block 1 on its chain, has run an iteration at height 2: the
\* height manager of height 0 and the candidate of height 1 are gone, the
\* height managers of heights 1 and 2 and the candidate of height 2 are there
C27_Witness ==
    /\ tickLog[1].n >= 1 /\ ~cm[1].panicked /\ cm[1].head.number = 1
    /\ DOMAIN cm[1].heights = {1, 2}
    /\ cm[1].blockCandidates # <<>>
    /\ \A x \in DOMAIN cm[1].blockCandidates : cm[1].blockCandidates[x].height = 2

----------------------------------------------------------------------------
(* The states of a valid lockset (SpecResolve). *)

\* C28: every valid lockset is in exactly one of the states quorum (on a
\* block) and no-quorum (Nil in the majority), so that the proposer's branch
\* "not quorum" proposes a block exactly on the locksets a receiver accepts
\* under a block proposal.
C28_ValidResolves ==
    (called # Nil /\ called.valid) =>
        /\ called.quorum.result # called.noQuorum
        /\ (called.branch = "BlockProposal") = called.accepted

----------------------------------------------------------------------------
(* The last valid lockset of a height (SpecScan). *)

\* The lockset a scan of kind fn looks at in round manager rm
ScannedLockset(fn, rm) ==
    IF fn = "lastValidLockset" THEN rm.lockset ELSE rm.precommitLockset

\* The rounds of height manager hm whose lockset of kind fn is valid
ValidRounds(fn, hm) ==
    {r \in DOMAIN hm.rounds : IsValid(ScannedLockset(fn, hm.rounds[r]))}

\* The valid lockset of kind fn of the highest round of hm, nil if there is none
HighestValid(fn, hm) ==
    IF ValidRounds(fn, hm) = {} THEN Nil
    ELSE ScannedLockset(fn, hm.rounds[CHOOSE r \in ValidRounds(fn, hm) :
                                          \A q \in ValidRounds(fn, hm) : q <= r])

\* C26: lastValidLockset() and lastValidPrecommitLockset() of a height manager
\* return the valid lockset of the highest round among all its round
\* managers, whatever set of rounds exists, and nil only if no round has a
\* valid lockset.
C26_HighestValid ==
    called # Nil => called.val = HighestValid(called.fn, called.hm)

----------------------------------------------------------------------------
(* The mutexes and the height map (SpecLocks). *)

\* The goroutines that are reading or writing cm.heights
Accessing == {t \in DOMAIN threads : threads[t].access # "none"}

\* C29: every read, lazy creation and deletion of an entry of cm.heights
\* happens while the goroutine holds getHeightMu, and no two goroutines are
\* in the map at once with one of them creating or deleting an entry.
C29_HeightMapLocked ==
    /\ \A t \in Accessing : locks["getHeightMu"] = t
    /\ \A t \in Accessing, u \in Accessing :
           (t # u) => (threads[t].access = "read" /\ threads[u].access = "read")

\* The mutexes goroutine t holds
Held(t) == {mu \in DOMAIN locks : locks[mu] = t}

\* Goroutine t waits for a mutex that a goroutine of S holds, or for a
\* receiver on a channel from which the builder has taken its block
WaitsOn(t, S) ==
    /\ Running(t)
    /\ \/ Cur(t).op = "lock" /\ locks[Cur(t).a] \in S
       \/ Cur(t).op = "send" /\ Cur(t).a = "wait" /\ cm[3].found = "taken"

\* No set of goroutines waits for one another, or for nobody, for ever
NoDeadlock ==
    \A S \in SUBSET DOMAIN threads : S # {} => \E t \in S : ~WaitsOn(t, S)

\* The place of a mutex in the order of nesting
Rank(mu) ==
    IF mu = "getHeightMu" THEN 1 ELSE IF mu = "roundProcessMu" THEN 2 ELSE 3

\* A goroutine about to lock a mutex holds only mutexes that come before it
\* in the order: it holds neither the mutex itself nor a later one
NestedInOrder ==
    \A t \in DOMAIN threads :
        (Running(t) /\ Cur(t).op = "lock") => \A mu \in Held(t) : Rank(mu) < Rank(Cur(t).a)

\* A goroutine at the hand-off on cm.found can take its step at once
HandOffNeverBlocks ==
    \A t \in DOMAIN threads :
        (Running(t) /\ Cur(t).op = "send")
            => (Cur(t).a = "default" \/ cm[3].found # "taken")

\* C30: no interleaving of the driver iteration with the handlers deadlocks:
\* mutexes nest only in the order getHeightMu, roundProcessMu, writeMapMu, no
\* goroutine locks a mutex it holds, and the hand-off on cm.found never
\* waits while a mutex is held.
C30_NoDeadlock == NoDeadlock /\ NestedInOrder /\ HandOffNeverBlocks

\* The driver is at its second hand-off, the builder having taken the block
\* of the first, holding getHeightMu, roundProcessMu and writeMapMu, while the
\* peer's handler waits for getHeightMu and the manager's for writeMapMu
C30_Witness ==
    /\ threads["driver"].entry = "process" /\ Running("driver")
    /\ Cur("driver").op = "send" /\ cm[3].found = "taken"
    /\ Held("driver") = {"getHeightMu", "roundProcessMu", "writeMapMu"}
    /\ Running("peer") /\ Cur("peer") = Lock("getHeightMu")
    /\ Running("manager") /\ Cur("manager") = Lock("writeMapMu")

====
